---- MODULE Spec2Model ----
(***************************************************************************)
(* HindiC: scanner, recursive-descent parser, semantic analyser and driver *)
(* of the Hindi-to-C compiler, as state machines over byte buffers.        *)
(*                                                                         *)
(* A source buffer is a sequence of bytes (0..255); the byte at C offset i *)
(* is src[i+1] and the byte at offset Len(src) is the terminating NUL.     *)
(* A token holds the offset of its slice (start), its length, line and     *)
(* column, as the C Token holds a pointer into the buffer.                 *)
(***************************************************************************)
EXTENDS Integers, Sequences, FiniteSets, TLC

VARIABLES
  source,     \* the NUL-terminated source buffer
  lexer,      \* the Lexer of the tokenize loop
  tokens,     \* the tokens the tokenize loop has printed
  keywordScan,\* TRUE: the parser is fed the keyword table's token stream
  scanned,    \* the scanToken calls on the source, as the parser makes them
  nullDeref,  \* what a read through a NULL pointer does: "trap" or "zero"
  parser,     \* the Parser, with the Lexer it points to
  program,    \* declarations of the AstProgram parse() is filling
  pstatus,    \* "parsing", "returned", "crashed" or "hung"
  sem,        \* the analyser: symbol table, error count, stderr
  analysis,   \* the position of analyzeProgram in its passes, its result
  main        \* the driver: its position, exit code and output file

lexVars == <<source, lexer, tokens>>

parseVars == <<keywordScan, scanned, nullDeref, parser, program, pstatus>>

semVars == <<sem, analysis, main>>

vars == <<source, lexer, tokens, keywordScan, scanned, nullDeref, parser,
          program, pstatus, sem, analysis, main>>

(***************************************************************************)
(* Bounds of the model.                                                    *)
(***************************************************************************)
\* scanToken calls made after the first EOF token was returned
MaxEofScans == 1

\* the deepest scope opened on the symbol table of SpecTable
MaxScopeDepth == 2

\* the most symbols held by the symbol table of SpecTable
MaxSymbols == 4

\* the most define calls rejected as redefinitions in SpecTable
MaxRedefinitions == 1

(***************************************************************************)
(* Scanner (lexer.c, found in src/src/codegen/codegen.c from line 468)     *)
(***************************************************************************)

\* hindiKeywords[]: the UTF-8 bytes of each keyword and its token type
hindiKeywords ==
  << [keyword |-> <<224,164,170, 224,165,130, 224,164,176, 224,165,141,
                    224,164,163, 224,164,190, 224,164,130, 224,164,149>>,
      token |-> "TOKEN_INT"],
     [keyword |-> <<224,164,166, 224,164,182, 224,164,174, 224,164,178,
                    224,164,181>>,
      token |-> "TOKEN_FLOAT"],
     [keyword |-> <<224,164,181, 224,164,176, 224,165,141, 224,164,163>>,
      token |-> "TOKEN_CHAR"],
     [keyword |-> <<224,164,182, 224,165,130, 224,164,168, 224,165,141,
                    224,164,175>>,
      token |-> "TOKEN_VOID"],
     [keyword |-> <<224,164,133, 224,164,151, 224,164,176>>,
      token |-> "TOKEN_IF"],
     [keyword |-> <<224,164,181, 224,164,176, 224,164,168, 224,164,190>>,
      token |-> "TOKEN_ELSE"],
     [keyword |-> <<224,164,166, 224,165,140, 224,164,176>>,
      token |-> "TOKEN_FOR"],
     [keyword |-> <<224,164,156, 224,164,172, 224,164,164, 224,164,149>>,
      token |-> "TOKEN_WHILE"],
     [keyword |-> <<224,164,149, 224,164,176, 224,165,139>>,
      token |-> "TOKEN_DO"],
     [keyword |-> <<224,164,176, 224,165,129, 224,164,149, 224,165,139>>,
      token |-> "TOKEN_BREAK"],
     [keyword |-> <<224,164,156, 224,164,190, 224,164,176, 224,165,128>>,
      token |-> "TOKEN_CONTINUE"],
     [keyword |-> <<224,164,181, 224,164,190, 224,164,170, 224,164,184>>,
      token |-> "TOKEN_RETURN"] >>

\* the byte at C offset i of a NUL-terminated buffer (*p for p = src + i)
At(src, i) == IF i < Len(src) THEN src[i + 1] ELSE 0

\* the bytes src[from .. from+n-1] (C offsets), as memcmp and %.*s read them
Slice(src, from, n) == SubSeq(src, from + 1, from + n)

initLexer == [start |-> 0, current |-> 0, line |-> 1, column |-> 1]

isAtEnd(src, lx) == At(src, lx.current) = 0

\* advance: column++, current++ (the byte returned is At(src, lx.current))
lexAdvance(lx) == [lx EXCEPT !.column = @ + 1, !.current = @ + 1]

peek(src, lx) == At(src, lx.current)

peekNext(src, lx) == IF isAtEnd(src, lx) THEN 0 ELSE At(src, lx.current + 1)

\* match(lexer, expected): TRUE iff the next byte is `expected` (then consumed)
lexMatches(src, lx, expected) ==
  ~isAtEnd(src, lx) /\ At(src, lx.current) = expected

\* makeToken with the byte after the token counted into its length
makeTokenOneByteMore(lx, type) ==
  [type |-> type, start |-> lx.start, length |-> lx.current - lx.start + 1,
   line |-> lx.line, column |-> lx.column - (lx.current - lx.start + 1),
   message |-> ""]

makeToken(lx, type) ==
  [type |-> type, start |-> lx.start, length |-> lx.current - lx.start,
   line |-> lx.line, column |-> lx.column - (lx.current - lx.start),
   message |-> ""]

\* an error token's slice is the message, not a slice of the source
errorToken(lx, msg) ==
  [type |-> "TOKEN_ERROR", start |-> -1, length |-> 0,
   line |-> lx.line, column |-> lx.column, message |-> msg]

RECURSIVE skipComment(_, _)
skipComment(src, lx) ==
  IF peek(src, lx) # 10 /\ ~isAtEnd(src, lx)
  THEN skipComment(src, lexAdvance(lx))
  ELSE lx

RECURSIVE skipWhitespace(_, _)
skipWhitespace(src, lx) ==
  LET c == peek(src, lx) IN
  CASE c \in {32, 13, 9} -> skipWhitespace(src, lexAdvance(lx))
    [] c = 10 ->
         skipWhitespace(src,
           lexAdvance([lx EXCEPT !.line = @ + 1, !.column = 1]))
    [] c = 47 ->
         IF peekNext(src, lx) = 47
         THEN skipWhitespace(src, skipComment(src, lx))
         ELSE lx
    [] OTHER -> lx

isDigit(c) == c >= 48 /\ c <= 57

isIdentifierStart(c) ==
  \/ (c >= 97 /\ c <= 122)
  \/ (c >= 65 /\ c <= 90)
  \/ c = 95
  \/ c >= 224

isIdentifierPart(c) == isIdentifierStart(c) \/ isDigit(c)

RECURSIVE identifierRun(_, _)
identifierRun(src, lx) ==
  IF isIdentifierPart(peek(src, lx))
  THEN identifierRun(src, lexAdvance(lx))
  ELSE lx

\* the first keyword of the table equal to the slice, or 0
keywordIndex(src, lx) ==
  LET hits == { i \in 1..Len(hindiKeywords) :
                  /\ lx.current - lx.start = Len(hindiKeywords[i].keyword)
                  /\ Slice(src, lx.start, Len(hindiKeywords[i].keyword))
                       = hindiKeywords[i].keyword }
  IN IF hits = {} THEN 0 ELSE CHOOSE i \in hits : \A j \in hits : i <= j

identifier(src, lx0) ==
  LET lx == identifierRun(src, lx0)
      k  == keywordIndex(src, lx)
  IN [token |-> makeToken(lx, IF k = 0 THEN "TOKEN_IDENTIFIER"
                                        ELSE hindiKeywords[k].token),
      lexer |-> lx]

RECURSIVE digitRun(_, _)
digitRun(src, lx) ==
  IF isDigit(peek(src, lx)) THEN digitRun(src, lexAdvance(lx)) ELSE lx

number(src, lx0) ==
  LET lx1 == digitRun(src, lx0) IN
  IF peek(src, lx1) = 46 /\ isDigit(peekNext(src, lx1))
  THEN LET lx2 == digitRun(src, lexAdvance(lx1))
       IN [token |-> makeToken(lx2, "TOKEN_NUMBER"), lexer |-> lx2]
  ELSE [token |-> makeToken(lx1, "TOKEN_NUMBER"), lexer |-> lx1]

RECURSIVE stringRun(_, _)
stringRun(src, lx) ==
  IF peek(src, lx) # 34 /\ ~isAtEnd(src, lx)
  THEN stringRun(src,
         lexAdvance(IF peek(src, lx) = 10
                    THEN [lx EXCEPT !.line = @ + 1, !.column = 1]
                    ELSE lx))
  ELSE lx

string(src, lx0) ==
  LET lx1 == stringRun(src, lx0) IN
  IF isAtEnd(src, lx1)
  THEN [token |-> errorToken(lx1, "Unterminated string."), lexer |-> lx1]
  ELSE LET lx2 == lexAdvance(lx1)
       IN [token |-> makeToken(lx2, "TOKEN_STRING"), lexer |-> lx2]

\* the single-byte tokens of scanToken's switch
singleByteToken(c) ==
  CASE c = 40 -> "TOKEN_LPAREN"
    [] c = 41 -> "TOKEN_RPAREN"
    [] c = 123 -> "TOKEN_LBRACE"
    [] c = 125 -> "TOKEN_RBRACE"
    [] c = 59 -> "TOKEN_SEMICOLON"
    [] c = 44 -> "TOKEN_COMMA"
    [] c = 43 -> "TOKEN_PLUS"
    [] c = 45 -> "TOKEN_MINUS"
    [] c = 42 -> "TOKEN_MULTIPLY"
    [] c = 47 -> "TOKEN_DIVIDE"
    [] c = 37 -> "TOKEN_MODULO"
    [] OTHER -> ""

\* `=`, `!`, `<`, `>`: the compound form when the next byte is `=`
compoundToken(c, withEq) ==
  CASE c = 61 -> IF withEq THEN "TOKEN_EQUALS" ELSE "TOKEN_ASSIGN"
    [] c = 33 -> IF withEq THEN "TOKEN_NOT_EQUALS" ELSE "TOKEN_NOT"
    [] c = 60 -> IF withEq THEN "TOKEN_LESS_EQ" ELSE "TOKEN_LESS"
    [] c = 62 -> IF withEq THEN "TOKEN_GREATER_EQ" ELSE "TOKEN_GREATER"
    [] OTHER -> ""

\* scanToken with the byte consumed before the test for the end: the
\* terminating NUL is consumed with the EOF token
scanTokenAdvancingFirst(src, lx0) ==
  LET ws == skipWhitespace(src, lx0)
      lx1 == [ws EXCEPT !.start = ws.current]
  IN
  IF isAtEnd(src, lx1)
  THEN [token |-> makeToken(lx1, "TOKEN_EOF"), lexer |-> lexAdvance(lx1)]
  ELSE
    LET c == At(src, lx1.current)
        lx2 == lexAdvance(lx1)
    IN
    CASE isIdentifierStart(c) -> identifier(src, lx2)
      [] isDigit(c) -> number(src, lx2)
      [] singleByteToken(c) # "" ->
           [token |-> makeToken(lx2, singleByteToken(c)), lexer |-> lx2]
      [] compoundToken(c, FALSE) # "" ->
           IF lexMatches(src, lx2, 61)
           THEN [token |-> makeToken(lexAdvance(lx2), compoundToken(c, TRUE)),
                 lexer |-> lexAdvance(lx2)]
           ELSE [token |-> makeToken(lx2, compoundToken(c, FALSE)),
                 lexer |-> lx2]
      [] c = 38 /\ lexMatches(src, lx2, 38) ->
           [token |-> makeToken(lexAdvance(lx2), "TOKEN_AND"),
            lexer |-> lexAdvance(lx2)]
      [] c = 124 /\ lexMatches(src, lx2, 124) ->
           [token |-> makeToken(lexAdvance(lx2), "TOKEN_OR"),
            lexer |-> lexAdvance(lx2)]
      [] c = 34 -> string(src, lx2)
      [] OTHER ->
           [token |-> errorToken(lx2, "Unexpected character."), lexer |-> lx2]

\* scanToken: the token returned and the lexer afterwards
scanToken(src, lx0) ==
  LET ws == skipWhitespace(src, lx0)
      lx1 == [ws EXCEPT !.start = ws.current]
  IN
  IF isAtEnd(src, lx1)
  THEN [token |-> makeToken(lx1, "TOKEN_EOF"), lexer |-> lx1]
  ELSE
    LET c == At(src, lx1.current)
        lx2 == lexAdvance(lx1)
    IN
    CASE isIdentifierStart(c) -> identifier(src, lx2)
      [] isDigit(c) -> number(src, lx2)
      [] singleByteToken(c) # "" ->
           [token |-> makeToken(lx2, singleByteToken(c)), lexer |-> lx2]
      [] compoundToken(c, FALSE) # "" ->
           IF lexMatches(src, lx2, 61)
           THEN [token |-> makeToken(lexAdvance(lx2), compoundToken(c, TRUE)),
                 lexer |-> lexAdvance(lx2)]
           ELSE [token |-> makeToken(lx2, compoundToken(c, FALSE)),
                 lexer |-> lx2]
      [] c = 38 /\ lexMatches(src, lx2, 38) ->
           [token |-> makeToken(lexAdvance(lx2), "TOKEN_AND"),
            lexer |-> lexAdvance(lx2)]
      [] c = 124 /\ lexMatches(src, lx2, 124) ->
           [token |-> makeToken(lexAdvance(lx2), "TOKEN_OR"),
            lexer |-> lexAdvance(lx2)]
      [] c = 34 -> string(src, lx2)
      [] OTHER ->
           [token |-> errorToken(lx2, "Unexpected character."), lexer |-> lx2]

(***************************************************************************)
(* AST constructors (src/ast/ast.c, found in src/unnamed/part_003)         *)
(*                                                                         *)
(* A node is a record with the fields of the C struct; NULL is the absent  *)
(* node.  A constructor that reads ->line and ->column of a child reads    *)
(* through NULL when the child is absent: lineOf/columnOf give what that   *)
(* read returns on a build where it returns (nullDeref = "zero"); on a     *)
(* build where it traps the caller records the trap (derefTraps).          *)
(***************************************************************************)
NULL == [type |-> "NULL"]

\* a read through a NULL pointer ends the process on this build
derefTraps(node) == node = NULL /\ nullDeref = "trap"

lineOf(node) == IF node = NULL THEN 0 ELSE node.line

columnOf(node) == IF node = NULL THEN 0 ELSE node.column

\* node->type, read through NULL as 0 (AST_PROGRAM) where the read returns
typeOf(node) == IF node = NULL THEN "AST_PROGRAM" ELSE node.type

createVarDecl(name, type, initializer) ==
  [type |-> "AST_VAR_DECL", line |-> name.line, column |-> name.column,
   name |-> name, varType |-> type, initializer |-> initializer]

\* the node after functionDeclaration has filled params and body
createFunctionDecl(name, returnType, params, body) ==
  [type |-> "AST_FUNCTION_DECL", line |-> name.line, column |-> name.column,
   name |-> name, returnType |-> returnType, params |-> params,
   body |-> body]

createBlock(statements) ==
  [type |-> "AST_BLOCK", line |-> 0, column |-> 0, statements |-> statements]

createIf(condition, thenBranch, elseBranch) ==
  [type |-> "AST_IF", line |-> lineOf(condition),
   column |-> columnOf(condition), condition |-> condition,
   thenBranch |-> thenBranch, elseBranch |-> elseBranch]

createWhile(condition, body) ==
  [type |-> "AST_WHILE", line |-> lineOf(condition),
   column |-> columnOf(condition), condition |-> condition, body |-> body]

createFor(initializer, condition, increment, body) ==
  LET first == IF initializer # NULL THEN initializer
               ELSE IF condition # NULL THEN condition
               ELSE IF increment # NULL THEN increment
               ELSE body
  IN [type |-> "AST_FOR", line |-> lineOf(first), column |-> columnOf(first),
      initializer |-> initializer, condition |-> condition,
      increment |-> increment, body |-> body]

createReturn(value) ==
  [type |-> "AST_RETURN", line |-> lineOf(value), column |-> columnOf(value),
   value |-> value]

createExpressionStmt(expression) ==
  [type |-> "AST_EXPRESSION_STMT", line |-> lineOf(expression),
   column |-> columnOf(expression), expression |-> expression]

createBinary(left, operator, right) ==
  [type |-> "AST_BINARY", line |-> lineOf(left), column |-> columnOf(left),
   left |-> left, operator |-> operator, right |-> right]

createUnary(operator, right) ==
  [type |-> "AST_UNARY", line |-> lineOf(right), column |-> columnOf(right),
   operator |-> operator, right |-> right]

createLiteral(value) ==
  [type |-> "AST_LITERAL", line |-> value.line, column |-> value.column,
   value |-> value]

createVariable(name) ==
  [type |-> "AST_VARIABLE", line |-> name.line, column |-> name.column,
   name |-> name]

createAssignment(name, value) ==
  [type |-> "AST_ASSIGNMENT", line |-> name.line, column |-> name.column,
   name |-> name, value |-> value]

\* the node after call() has filled the arguments
createCall(name, arguments) ==
  [type |-> "AST_CALL", line |-> name.line, column |-> name.column,
   name |-> name, arguments |-> arguments]

(***************************************************************************)
(* Parser (src/src/parser/parser.c)                                        *)
(*                                                                         *)
(* A parser state p is the Parser struct together with the Lexer it points *)
(* to and the diagnostics printed so far.  p.status is "ok" while the      *)
(* parse runs, "trap" once a read through NULL has ended the process and   *)
(* "hang" once a loop has made an iteration that consumed no token (the    *)
(* parser's control flow depends on the tokens alone, so every later       *)
(* iteration repeats it).  Each parsing function returns the node it built *)
(* and the parser state afterwards.                                        *)
(***************************************************************************)
\* The keyword at offset pos of the source, as the keyword table spells it
\* (0 if none): the keyword's bytes, not followed by an identifier byte or
\* by another byte of a UTF-8 sequence.
keywordAt(src, pos) ==
  LET hits == { i \in 1..Len(hindiKeywords) :
                  LET n == Len(hindiKeywords[i].keyword) IN
                  /\ pos + n <= Len(src)
                  /\ Slice(src, pos, n) = hindiKeywords[i].keyword
                  /\ ~isIdentifierPart(At(src, pos + n))
                  /\ At(src, pos + n) < 128 }
  IN IF hits = {} THEN 0 ELSE CHOOSE i \in hits : TRUE

\* The token stream the keyword table describes: scanToken, except that the
\* bytes of a keyword are returned as that keyword's token.  scanToken
\* itself never returns a keyword token (its identifier() stops at the
\* second byte of a Devanagari sequence), so the parser's keyword paths
\* are exercised with this stream (keywordScan = TRUE).
tableScan(src, lx0) ==
  LET ws == skipWhitespace(src, lx0)
      lx1 == [ws EXCEPT !.start = ws.current]
      k == keywordAt(src, lx1.current)
      n == Len(hindiKeywords[k].keyword)
      lx2 == [lx1 EXCEPT !.current = @ + n, !.column = @ + n]
  IN IF k = 0 THEN scanToken(src, lx0)
     ELSE [token |-> makeToken(lx2, hindiKeywords[k].token), lexer |-> lx2]

\* v bound to a name in the body F: C's local variable holding a result
With(v, F(_)) == F(v)

\* The scanToken calls the parser makes on a source, in order: the lexer
\* before the call (from), the token returned and the lexer after it.  The
\* last entry is a call on a lexer that has already returned EOF; it
\* returns EOF again and leaves the lexer as it is.  scanRun gives the first
\* n calls from the lexer lx on, or those up to that last one.
RECURSIVE scanRun(_, _, _, _)
scanRun(src, byTable, lx, n) ==
  IF n <= 1
  THEN { <<[from |-> lx, token |-> r.token, lexer |-> r.lexer]>> :
           r \in {IF byTable THEN tableScan(src, lx) ELSE scanToken(src, lx)} }
  ELSE UNION { IF first[Len(first)].lexer = first[Len(first)].from
               THEN {first}
               ELSE { first \o rest :
                        rest \in scanRun(src, byTable,
                                         first[Len(first)].lexer,
                                         n - (n \div 2)) } :
               first \in scanRun(src, byTable, lx, n \div 2) }

\* every token but EOF takes a byte at least
scanCalls(src, byTable) ==
  CHOOSE calls \in scanRun(src, byTable, initLexer, Len(src) + 2) : TRUE

\* the scanToken call of advance on the lexer lx: scanToken reads only the
\* lexer and the source, so its result is the one recorded for lx
nextToken(src, lx) ==
  scanned[CHOOSE k \in 1..Len(scanned) : scanned[k].from = lx]

\* q, the parser after a call of parserError made in p, with the call
\* recorded in errors: its message, panicMode on entry, the lines it printed
\* and the flags on return
recorded(p, message, q) ==
  [q EXCEPT !.errors =
     Append(@, [message |-> message, panicMode |-> p.panicMode,
                printed |-> Len(q.diagnostics) - Len(p.diagnostics),
                flags |-> <<q.hadError, q.panicMode>>])]

\* parserError without the test of panicMode
parserErrorUnsuppressed(p, message) ==
  IF p.status # "ok" THEN p
  ELSE recorded(p, message,
         [p EXCEPT !.panicMode = TRUE, !.hadError = TRUE,
                   !.diagnostics = Append(@, message)])

parserError(p, message) ==
  IF p.status # "ok" THEN p
  ELSE recorded(p, message,
         IF p.panicMode THEN p
         ELSE [p EXCEPT !.panicMode = TRUE, !.hadError = TRUE,
                        !.diagnostics = Append(@, message)])

\* the for (;;) loop of advance: scan until a token is not an ERROR token
RECURSIVE advanceScan(_, _)
advanceScan(src, p) ==
  With(nextToken(src, p.lexer),
       LAMBDA r :
         IF r.token.type # "TOKEN_ERROR"
         THEN [p EXCEPT !.lexer = r.lexer, !.current = r.token]
         ELSE advanceScan(src,
                parserError([p EXCEPT !.lexer = r.lexer,
                                      !.current = r.token],
                            r.token.message)))

advance(src, p) ==
  IF p.status # "ok" THEN p
  ELSE advanceScan(src, [p EXCEPT !.previous = p.current])

check(p, type) == p.current.type = type

checkAny(p, types) == p.current.type \in types

\* match: the state after if (match(parser, type)) took the branch or not
match(src, p, type) == IF check(p, type) THEN advance(src, p) ELSE p

\* consume: its boolean result is check(p, type)
consume(src, p, type, message) ==
  IF check(p, type) THEN advance(src, p) ELSE parserError(p, message)

\* synchronize is defined by parser.c and called from nowhere
RECURSIVE synchronizeLoop(_, _)
synchronizeLoop(src, p) ==
  IF p.current.type = "TOKEN_EOF" THEN p
  ELSE IF p.previous.type = "TOKEN_SEMICOLON" THEN p
  ELSE IF p.current.type \in {"TOKEN_INT", "TOKEN_FLOAT", "TOKEN_CHAR",
                              "TOKEN_VOID", "TOKEN_IF", "TOKEN_WHILE",
                              "TOKEN_FOR", "TOKEN_RETURN"} THEN p
  ELSE synchronizeLoop(src, advance(src, p))

synchronize(src, p) == synchronizeLoop(src, [p EXCEPT !.panicMode = FALSE])

noToken ==
  [type |-> "TOKEN_EOF", start |-> 0, length |-> 0, line |-> 0, column |-> 0,
   message |-> ""]

\* initParser: flags cleared, then advance loads the first token.  beyond
\* is the byte that lies behind the source buffer's terminating NUL in this
\* run, farthest the greatest offset of the buffer that declaration's
\* lookahead has read (-1 before it has read any).
initParser(src, lx) ==
  advance(src, [lexer |-> lx, current |-> noToken, previous |-> noToken,
                hadError |-> FALSE, panicMode |-> FALSE,
                diagnostics |-> <<>>, errors |-> <<>>, status |-> "ok",
                beyond |-> 0, farthest |-> -1])

trapped(p) == [p EXCEPT !.status = "trap"]

hung(p) == [p EXCEPT !.status = "hang"]

\* an iteration that started in p and ended in q consumed a token
consumed(p, q) == q.current.start > p.current.start

\* a parsing function's result: the node it returns, the parser afterwards,
\* and whether the process has stopped there (trapped or hung)
Result(node, p) ==
  [node |-> node, p |-> p, stopped |-> p.status # "ok"]

RECURSIVE declaration(_, _), varDeclaration(_, _, _),
          functionDeclaration(_, _, _), paramLoop(_, _, _),
          paramLoopUnchecked(_, _, _),
          statement(_, _), blockLoop(_, _, _), blockStatement(_, _),
          ifStatement(_, _), whileStatement(_, _), forStatement(_, _),
          returnStatement(_, _), expressionStatement(_, _),
          expression(_, _), assignment(_, _),
          logicalOr(_, _), logicalOrLoop(_, _, _, _),
          logicalAnd(_, _), logicalAndLoop(_, _, _, _),
          equality(_, _), equalityLoop(_, _, _, _),
          comparison(_, _), comparisonLoop(_, _, _, _),
          term(_, _), termLoop(_, _, _, _),
          factor(_, _), factorLoop(_, _, _, _),
          unary(_, _), call(_, _), argumentLoop(_, _, _), primary(_, _)

typeKeywords == {"TOKEN_INT", "TOKEN_FLOAT", "TOKEN_CHAR", "TOKEN_VOID"}

\* declaration's test for a function: the raw bytes lexer->current[0] and
\* lexer->current[1], the lexer standing just after the current token
\* the byte lexer->current[k]: a byte of the buffer up to its NUL, and
\* behind the NUL whatever lies there
lookaheadByte(src, p, k) ==
  IF p.lexer.current + k > Len(src) THEN p.beyond
  ELSE At(src, p.lexer.current + k)

looksLikeFunction(src, p) ==
  /\ check(p, "TOKEN_IDENTIFIER")
  /\ \/ lookaheadByte(src, p, 0) = 40
     \/ lookaheadByte(src, p, 1) = 40

\* the offsets read by the test: none unless the token is an identifier,
\* current[1] unless current[0] is `(`
lookedAhead(src, p) ==
  IF ~check(p, "TOKEN_IDENTIFIER") THEN p
  ELSE With(IF lookaheadByte(src, p, 0) = 40 THEN p.lexer.current
            ELSE p.lexer.current + 1,
            LAMBDA offset :
              [p EXCEPT !.farthest = IF offset > @ THEN offset ELSE @])

declaration(src, p) ==
  IF p.status # "ok" THEN Result(NULL, p)
  ELSE IF checkAny(p, typeKeywords)
  THEN With(advance(src, p),
            LAMBDA p1 :
              IF looksLikeFunction(src, p1)
              THEN functionDeclaration(src, lookedAhead(src, p1),
                                       p.current.type)
              ELSE varDeclaration(src, lookedAhead(src, p1),
                                  p.current.type))
  ELSE statement(src, p)

varDeclaration(src, p, type) ==
  IF ~check(p, "TOKEN_IDENTIFIER")
  THEN Result(NULL, parserError(p, "Expect variable name."))
  ELSE
    With(advance(src, p), LAMBDA p1 :
    With(IF check(p1, "TOKEN_ASSIGN")
         THEN expression(src, advance(src, p1))
         ELSE Result(NULL, p1), LAMBDA init :
      Result(createVarDecl(p.current, type, init.node),
             consume(src, init.p, "TOKEN_SEMICOLON",
                     "Expect ';' after variable declaration."))))

\* one parameter of the do { ... } while (match(COMMA)) loop
parameter(src, params, p) ==
  IF checkAny(p, {"TOKEN_INT", "TOKEN_FLOAT", "TOKEN_CHAR"})
  THEN With(advance(src, p), LAMBDA p1 :
         IF check(p1, "TOKEN_IDENTIFIER")
         THEN [params |-> Append(params, [type |-> p.current.type,
                                          name |-> p1.current]),
               p |-> advance(src, p1)]
         ELSE [params |-> params,
               p |-> parserError(p1, "Expect parameter name.")])
  ELSE [params |-> params, p |-> parserError(p, "Expect parameter type.")]

\* the parameter loop without the test of paramCount against 8
paramLoopUnchecked(src, params, p) ==
  With(parameter(src, params, p), LAMBDA r :
    IF r.p.status = "ok" /\ check(r.p, "TOKEN_COMMA")
    THEN paramLoopUnchecked(src, r.params, advance(src, r.p))
    ELSE r)

paramLoop(src, params, p) ==
  IF Len(params) >= 8
  THEN [params |-> params,
        p |-> parserError(p, "Too many function parameters.")]
  ELSE With(parameter(src, params, p), LAMBDA r :
         IF r.p.status = "ok" /\ check(r.p, "TOKEN_COMMA")
         THEN paramLoop(src, r.params, advance(src, r.p))
         ELSE r)

functionDeclaration(src, p, returnType) ==
  IF ~check(p, "TOKEN_IDENTIFIER")
  THEN Result(NULL, parserError(p, "Expect function name."))
  ELSE
    With(consume(src, advance(src, p), "TOKEN_LPAREN",
                 "Expect '(' after function name."), LAMBDA p2 :
    With(IF ~check(p2, "TOKEN_RPAREN")
         THEN paramLoop(src, <<>>, p2)
         ELSE [params |-> <<>>, p |-> p2], LAMBDA ps :
    With(blockStatement(src,
           consume(src,
                   consume(src, ps.p, "TOKEN_RPAREN",
                           "Expect ')' after parameters."),
                   "TOKEN_LBRACE", "Expect '{' before function body.")),
         LAMBDA body :
      Result(createFunctionDecl(p.current, returnType, ps.params,
                                body.node),
             body.p))))

statement(src, p) ==
  IF p.status # "ok" THEN Result(NULL, p)
  ELSE
    CASE check(p, "TOKEN_IF") -> ifStatement(src, advance(src, p))
      [] check(p, "TOKEN_WHILE") -> whileStatement(src, advance(src, p))
      [] check(p, "TOKEN_FOR") -> forStatement(src, advance(src, p))
      [] check(p, "TOKEN_RETURN") -> returnStatement(src, advance(src, p))
      [] check(p, "TOKEN_LBRACE") -> blockStatement(src, advance(src, p))
      [] OTHER -> expressionStatement(src, p)

\* the while loop of blockStatement: one declaration per iteration
blockLoop(src, statements, p) ==
  IF p.status = "ok" /\ ~check(p, "TOKEN_RBRACE") /\ ~check(p, "TOKEN_EOF")
  THEN With(declaration(src, p), LAMBDA r :
       With(IF r.node # NULL THEN Append(statements, r.node)
            ELSE statements, LAMBDA stmts :
         IF r.p.status = "ok" /\ ~consumed(p, r.p)
         THEN [statements |-> stmts, p |-> hung(r.p)]
         ELSE blockLoop(src, stmts, r.p)))
  ELSE [statements |-> statements, p |-> p]

blockStatement(src, p) ==
  With(blockLoop(src, <<>>, p), LAMBDA r :
    Result(createBlock(r.statements),
           consume(src, r.p, "TOKEN_RBRACE", "Expect '}' after block.")))

ifStatement(src, p) ==
  With(expression(src, consume(src, p, "TOKEN_LPAREN",
                               "Expect '(' after 'if'.")), LAMBDA cond :
  With(statement(src, consume(src, cond.p, "TOKEN_RPAREN",
                              "Expect ')' after if condition.")),
       LAMBDA thenB :
  With(IF check(thenB.p, "TOKEN_ELSE")
       THEN statement(src, advance(src, thenB.p))
       ELSE Result(NULL, thenB.p), LAMBDA elseB :
    IF elseB.stopped THEN Result(NULL, elseB.p)
    ELSE IF derefTraps(cond.node) THEN Result(NULL, trapped(elseB.p))
    ELSE Result(createIf(cond.node, thenB.node, elseB.node), elseB.p))))

whileStatement(src, p) ==
  With(expression(src, consume(src, p, "TOKEN_LPAREN",
                               "Expect '(' after 'while'.")), LAMBDA cond :
  With(statement(src, consume(src, cond.p, "TOKEN_RPAREN",
                              "Expect ')' after while condition.")),
       LAMBDA body :
    IF body.stopped THEN Result(NULL, body.p)
    ELSE IF derefTraps(cond.node) THEN Result(NULL, trapped(body.p))
    ELSE Result(createWhile(cond.node, body.node), body.p)))

\* the initializer clause of a for statement
forInitializer(src, p) ==
  IF check(p, "TOKEN_SEMICOLON") THEN Result(NULL, advance(src, p))
  ELSE IF checkAny(p, {"TOKEN_INT", "TOKEN_FLOAT", "TOKEN_CHAR"})
  THEN varDeclaration(src, advance(src, p), p.current.type)
  ELSE expressionStatement(src, p)

forStatement(src, p) ==
  With(forInitializer(src, consume(src, p, "TOKEN_LPAREN",
                                   "Expect '(' after 'for'.")),
       LAMBDA init :
  With(IF ~check(init.p, "TOKEN_SEMICOLON")
       THEN expression(src, init.p)
       ELSE Result(NULL, init.p), LAMBDA cond :
  With(consume(src, cond.p, "TOKEN_SEMICOLON",
               "Expect ';' after loop condition."), LAMBDA p2 :
  With(IF ~check(p2, "TOKEN_RPAREN")
       THEN expression(src, p2)
       ELSE Result(NULL, p2), LAMBDA incr :
  With(statement(src, consume(src, incr.p, "TOKEN_RPAREN",
                              "Expect ')' after for clauses.")),
       LAMBDA body :
    IF body.stopped THEN Result(NULL, body.p)
    ELSE Result(createFor(init.node, cond.node, incr.node, body.node),
                body.p))))))

returnStatement(src, p) ==
  With(IF ~check(p, "TOKEN_SEMICOLON")
       THEN expression(src, p)
       ELSE Result(NULL, p), LAMBDA value :
    Result(createReturn(value.node),
           consume(src, value.p, "TOKEN_SEMICOLON",
                   "Expect ';' after return value.")))

expressionStatement(src, p) ==
  With(expression(src, p), LAMBDA expr :
  With(consume(src, expr.p, "TOKEN_SEMICOLON",
               "Expect ';' after expression."), LAMBDA p1 :
    IF p1.status # "ok" THEN Result(NULL, p1)
    ELSE IF derefTraps(expr.node) THEN Result(NULL, trapped(p1))
    ELSE Result(createExpressionStmt(expr.node), p1)))

expression(src, p) == assignment(src, p)

assignment(src, p) ==
  With(logicalOr(src, p), LAMBDA expr :
    IF expr.stopped THEN expr
    ELSE IF check(expr.p, "TOKEN_ASSIGN")
    THEN With(assignment(src, advance(src, expr.p)), LAMBDA value :
           IF value.stopped THEN Result(NULL, value.p)
           ELSE IF derefTraps(expr.node)
           THEN Result(NULL, trapped(value.p))
           ELSE IF typeOf(expr.node) = "AST_VARIABLE"
           THEN Result(createAssignment(expr.node.name, value.node),
                       value.p)
           ELSE Result(expr.node,
                       parserError(value.p, "Invalid assignment target.")))
    ELSE expr)

(***************************************************************************)
(* A binary level of parser.c is                                           *)
(*     expr = next();                                                      *)
(*     while (match(ops)) { op = previous.type; right = next();            *)
(*                          expr = createBinary(expr, op, right); }        *)
(* Its loop operator below parses one operand per step: left is the tree   *)
(* built so far and operator the operator matched before this operand      *)
(* ("" at the first operand, where there is none).                         *)

\* expr after an operand was parsed
joinOperand(left, operator, right) ==
  IF operator = "" THEN right ELSE createBinary(left, operator, right)

logicalOrLoop(src, left, operator, p) ==
  With(logicalAnd(src, p), LAMBDA r :
    IF r.stopped THEN Result(NULL, r.p)
    ELSE IF operator # "" /\ derefTraps(left)
    THEN Result(NULL, trapped(r.p))
    ELSE IF checkAny(r.p, {"TOKEN_OR"})
    THEN logicalOrLoop(src, joinOperand(left, operator, r.node),
                    r.p.current.type, advance(src, r.p))
    ELSE Result(joinOperand(left, operator, r.node), r.p))

logicalOr(src, p) == logicalOrLoop(src, NULL, "", p)

logicalAndLoop(src, left, operator, p) ==
  With(equality(src, p), LAMBDA r :
    IF r.stopped THEN Result(NULL, r.p)
    ELSE IF operator # "" /\ derefTraps(left)
    THEN Result(NULL, trapped(r.p))
    ELSE IF checkAny(r.p, {"TOKEN_AND"})
    THEN logicalAndLoop(src, joinOperand(left, operator, r.node),
                     r.p.current.type, advance(src, r.p))
    ELSE Result(joinOperand(left, operator, r.node), r.p))

logicalAnd(src, p) == logicalAndLoop(src, NULL, "", p)

equalityLoop(src, left, operator, p) ==
  With(comparison(src, p), LAMBDA r :
    IF r.stopped THEN Result(NULL, r.p)
    ELSE IF operator # "" /\ derefTraps(left)
    THEN Result(NULL, trapped(r.p))
    ELSE IF checkAny(r.p, {"TOKEN_EQUALS", "TOKEN_NOT_EQUALS"})
    THEN equalityLoop(src, joinOperand(left, operator, r.node),
                   r.p.current.type, advance(src, r.p))
    ELSE Result(joinOperand(left, operator, r.node), r.p))

equality(src, p) == equalityLoop(src, NULL, "", p)

comparisonLoop(src, left, operator, p) ==
  With(term(src, p), LAMBDA r :
    IF r.stopped THEN Result(NULL, r.p)
    ELSE IF operator # "" /\ derefTraps(left)
    THEN Result(NULL, trapped(r.p))
    ELSE IF checkAny(r.p, {"TOKEN_LESS", "TOKEN_GREATER",
                      "TOKEN_LESS_EQ", "TOKEN_GREATER_EQ"})
    THEN comparisonLoop(src, joinOperand(left, operator, r.node),
                     r.p.current.type, advance(src, r.p))
    ELSE Result(joinOperand(left, operator, r.node), r.p))

comparison(src, p) == comparisonLoop(src, NULL, "", p)

termLoop(src, left, operator, p) ==
  With(factor(src, p), LAMBDA r :
    IF r.stopped THEN Result(NULL, r.p)
    ELSE IF operator # "" /\ derefTraps(left)
    THEN Result(NULL, trapped(r.p))
    ELSE IF checkAny(r.p, {"TOKEN_PLUS", "TOKEN_MINUS"})
    THEN termLoop(src, joinOperand(left, operator, r.node),
               r.p.current.type, advance(src, r.p))
    ELSE Result(joinOperand(left, operator, r.node), r.p))

\* term with its operators taken as right-associative: a - b - c read as
\* a - (b - c)
termRightAssociative(src, p) ==
  With(factor(src, p), LAMBDA l :
    IF ~l.stopped /\ checkAny(l.p, {"TOKEN_PLUS", "TOKEN_MINUS"})
    THEN With(term(src, advance(src, l.p)), LAMBDA r :
           IF r.stopped THEN Result(NULL, r.p)
           ELSE IF derefTraps(l.node) THEN Result(NULL, trapped(r.p))
           ELSE Result(createBinary(l.node, l.p.current.type, r.node), r.p))
    ELSE l)

term(src, p) == termLoop(src, NULL, "", p)

factorLoop(src, left, operator, p) ==
  With(unary(src, p), LAMBDA r :
    IF r.stopped THEN Result(NULL, r.p)
    ELSE IF operator # "" /\ derefTraps(left)
    THEN Result(NULL, trapped(r.p))
    ELSE IF checkAny(r.p, {"TOKEN_MULTIPLY", "TOKEN_DIVIDE", "TOKEN_MODULO"})
    THEN factorLoop(src, joinOperand(left, operator, r.node),
                 r.p.current.type, advance(src, r.p))
    ELSE Result(joinOperand(left, operator, r.node), r.p))

factor(src, p) == factorLoop(src, NULL, "", p)

unary(src, p) ==
  IF p.status = "ok" /\ checkAny(p, {"TOKEN_MINUS", "TOKEN_NOT"})
  THEN With(unary(src, advance(src, p)), LAMBDA r :
         IF r.stopped THEN Result(NULL, r.p)
         ELSE IF derefTraps(r.node) THEN Result(NULL, trapped(r.p))
         ELSE Result(createUnary(p.current.type, r.node), r.p))
  ELSE call(src, p)

\* the do { ... } while (match(COMMA)) loop over the arguments
argumentLoop(src, arguments, p) ==
  With(expression(src, p), LAMBDA arg :
    IF ~arg.stopped /\ check(arg.p, "TOKEN_COMMA")
    THEN argumentLoop(src, Append(arguments, arg.node),
                      advance(src, arg.p))
    ELSE [arguments |-> Append(arguments, arg.node), p |-> arg.p])

\* the arguments and closing parenthesis of a call of the variable callee
finishCall(src, callee, p) ==
  With(IF ~check(p, "TOKEN_RPAREN")
       THEN argumentLoop(src, <<>>, p)
       ELSE [arguments |-> <<>>, p |-> p], LAMBDA as :
    Result(createCall(callee.name, as.arguments),
           consume(src, as.p, "TOKEN_RPAREN",
                   "Expect ')' after arguments.")))

call(src, p) ==
  With(primary(src, p), LAMBDA expr :
    IF expr.stopped THEN expr
    ELSE IF check(expr.p, "TOKEN_LPAREN")
    THEN With(advance(src, expr.p), LAMBDA p1 :
           IF derefTraps(expr.node) THEN Result(NULL, trapped(p1))
           ELSE IF typeOf(expr.node) # "AST_VARIABLE"
           THEN Result(expr.node,
                       parserError(p1, "Can only call functions."))
           ELSE finishCall(src, expr.node, p1))
    ELSE expr)

primary(src, p) ==
  IF p.status # "ok" THEN Result(NULL, p)
  ELSE
    CASE checkAny(p, {"TOKEN_NUMBER", "TOKEN_STRING"}) ->
           Result(createLiteral(p.current), advance(src, p))
      [] check(p, "TOKEN_IDENTIFIER") ->
           Result(createVariable(p.current), advance(src, p))
      [] check(p, "TOKEN_LPAREN") ->
           With(expression(src, advance(src, p)), LAMBDA expr :
             Result(expr.node,
                    consume(src, expr.p, "TOKEN_RPAREN",
                            "Expect ')' after expression.")))
      [] OTHER -> Result(NULL, parserError(p, "Expect expression."))

(***************************************************************************)
(* Symbol table (symbol_table.c) and semantic analyser (semantic.c, found  *)
(* in src/unnamed/part_005).                                               *)
(*                                                                         *)
(* The analyser's state is one record a: the SymbolTable (table), the      *)
(* SemanticContext's errorCount, the static currentFunctionReturnType      *)
(* (returnType), the lines written to stderr, and refs, one entry for each *)
(* analyzeVariable call: the node's token, the table it was resolved in    *)
(* and the type returned.  A function that returns a value and changes     *)
(* the state returns both.                                                 *)
(***************************************************************************)

\* the C string at offset start of the source buffer: the bytes from there
\* to the terminating NUL (what strlen, strcpy and strcmp read through a
\* Token's start pointer)
cString(src, start) == SubSeq(src, start + 1, Len(src))

\* resolveSymbol's and defineVariable's NULL
NoSymbol == [type |-> "NULL"]

initSymbolTable == [first |-> <<>>, scopeDepth |-> 0]

createSymbol(name, type, scopeDepth) ==
  [name |-> name, type |-> type, dataType |-> "TOKEN_VOID",
   paramCount |-> 0, paramTypes |-> <<>>, scopeDepth |-> scopeDepth]

\* printed to stderr without going through semanticError
reportRedefinition(a, line, column, message) ==
  [a EXCEPT !.stderr = Append(@, [line |-> line, column |-> column,
                                  message |-> message])]

defineVariable(a, name, dataType, line, column) ==
  IF \E k \in 1..Len(a.table.first) :
        /\ a.table.first[k].scopeDepth = a.table.scopeDepth
        /\ a.table.first[k].name = name
  THEN [symbol |-> NoSymbol,
        a |-> reportRedefinition(a, line, column,
                                 "Variable already defined in this scope.")]
  ELSE With([createSymbol(name, "SYMBOL_VARIABLE", a.table.scopeDepth)
               EXCEPT !.dataType = dataType],
            LAMBDA symbol :
              [symbol |-> symbol,
               a |-> [a EXCEPT !.table.first = <<symbol>> \o @]])

\* a defineFunction that gives the symbol the depth of the scope that is
\* open, as defineVariable does
defineFunctionAtCurrentDepth(a, name, returnType, paramTypes, line, column) ==
  IF \E k \in 1..Len(a.table.first) :
        /\ a.table.first[k].scopeDepth = 0
        /\ a.table.first[k].name = name
  THEN [symbol |-> NoSymbol,
        a |-> reportRedefinition(a, line, column,
                                 "Function already defined.")]
  ELSE With([createSymbol(name, "SYMBOL_FUNCTION", a.table.scopeDepth)
               EXCEPT !.dataType = returnType,
                      !.paramCount = Len(paramTypes),
                      !.paramTypes = paramTypes],
            LAMBDA symbol :
              [symbol |-> symbol,
               a |-> [a EXCEPT !.table.first = <<symbol>> \o @]])

defineFunction(a, name, returnType, paramTypes, line, column) ==
  IF \E k \in 1..Len(a.table.first) :
        /\ a.table.first[k].scopeDepth = 0
        /\ a.table.first[k].name = name
  THEN [symbol |-> NoSymbol,
        a |-> reportRedefinition(a, line, column,
                                 "Function already defined.")]
  ELSE With([createSymbol(name, "SYMBOL_FUNCTION", 0)
               EXCEPT !.dataType = returnType,
                      !.paramCount = Len(paramTypes),
                      !.paramTypes = paramTypes],
            LAMBDA symbol :
              [symbol |-> symbol,
               a |-> [a EXCEPT !.table.first = <<symbol>> \o @]])

\* the first symbol of the list whose name strcmp finds equal
resolveSymbol(table, name) ==
  IF \E k \in 1..Len(table.first) : table.first[k].name = name
  THEN table.first[CHOOSE k \in 1..Len(table.first) :
                     /\ table.first[k].name = name
                     /\ \A j \in 1..(k - 1) : table.first[j].name # name]
  ELSE NoSymbol

beginScope(a) == [a EXCEPT !.table.scopeDepth = @ + 1]

\* endScope keeps the symbols that are not of the depth being closed
keptAtEnd(table, symbol) == symbol.scopeDepth # table.scopeDepth

\* endScope's loop over the list: `kept` is the list up to `previous`,
\* `rest` the list from `current` on; a symbol of the depth being closed is
\* unlinked and freed, any other becomes `previous`
RECURSIVE unlinkLoop(_, _, _)
unlinkLoop(table, kept, rest) ==
  IF rest = <<>>
  THEN kept
  ELSE unlinkLoop(table,
                  IF keptAtEnd(table, Head(rest))
                  THEN Append(kept, Head(rest))
                  ELSE kept,
                  Tail(rest))

\* an endScope that pops symbols from the front of the list while they are
\* of the depth being closed, and stops at the first one that is not
RECURSIVE popLoop(_, _)
popLoop(table, rest) ==
  IF rest # <<>> /\ ~keptAtEnd(table, Head(rest))
  THEN popLoop(table, Tail(rest))
  ELSE rest

endScopePoppingFront(a) ==
  [a EXCEPT !.table.first = popLoop(a.table, @),
            !.table.scopeDepth = @ - 1]

endScope(a) ==
  [a EXCEPT !.table.first = unlinkLoop(a.table, <<>>, @),
            !.table.scopeDepth = @ - 1]

semanticError(a, line, column, message) ==
  [a EXCEPT !.errorCount = @ + 1,
            !.stderr = Append(@, [line |-> line, column |-> column,
                                  message |-> message])]

\* initSemanticAnalyzer; currentFunctionReturnType is a static initialised
\* to TOKEN_VOID.  inferred records, for each analyzeExpression call on a
\* node, in the order the calls return: the node, the type returned and the
\* number of errors reported during the call.  returns records each
\* analyzeReturnStatement call likewise, with currentFunctionReturnType as
\* it was during the call.  scopes records each call of analyzeFunctionDecl,
\* analyzeBlock and analyzeForStatement made for a declaration or statement:
\* the node's type, the scope depth when it was entered and when it was
\* left, and what it returned.
initSemanticAnalyzer ==
  [table |-> initSymbolTable, errorCount |-> 0, returnType |-> "TOKEN_VOID",
   stderr |-> <<>>, refs |-> <<>>, inferred |-> <<>>, returns |-> <<>>,
   scopes |-> <<>>]

\* an expression's result: its type and the analyser state afterwards
Typed(type, a) == [type |-> type, a |-> a]

\* an error was reported at the node, the expression has type TOKEN_ERROR
typeError(a, node, message) ==
  Typed("TOKEN_ERROR", semanticError(a, node.line, node.column, message))

RECURSIVE analyzeDeclaration(_, _, _), analyzeVarDecl(_, _, _),
          analyzeFunctionDecl(_, _, _), defineParameters(_, _, _, _),
          analyzeStatement(_, _, _), analyzeBlock(_, _, _),
          analyzeBlockLoop(_, _, _, _),
          analyzeBlockLoopKeepingScope(_, _, _, _),
          analyzeIfStatement(_, _, _),
          analyzeWhileStatement(_, _, _), analyzeForStatement(_, _, _),
          analyzeReturnStatement(_, _, _),
          analyzeExpressionStatement(_, _, _), analyzeExpression(_, _, _),
          analyzeBinary(_, _, _), analyzeUnary(_, _, _),
          analyzeAssignment(_, _, _), analyzeCall(_, _, _),
          analyzeArguments(_, _, _, _, _)

arithmeticOperators ==
  {"TOKEN_PLUS", "TOKEN_MINUS", "TOKEN_MULTIPLY", "TOKEN_DIVIDE",
   "TOKEN_MODULO"}

comparisonOperators ==
  {"TOKEN_EQUALS", "TOKEN_NOT_EQUALS", "TOKEN_LESS", "TOKEN_GREATER",
   "TOKEN_LESS_EQ", "TOKEN_GREATER_EQ"}

numericTypes == {"TOKEN_INT", "TOKEN_FLOAT"}

\* analyzeBinary once both operand types are known
\* a binaryType that gives every operation on operands without error the
\* type TOKEN_INT
binaryTypeAlwaysInt(a, node, leftType, rightType) ==
  IF leftType = "TOKEN_ERROR" \/ rightType = "TOKEN_ERROR"
  THEN Typed("TOKEN_ERROR", a)
  ELSE Typed("TOKEN_INT", a)

binaryType(a, node, leftType, rightType) ==
  IF leftType = "TOKEN_ERROR" \/ rightType = "TOKEN_ERROR"
  THEN Typed("TOKEN_ERROR", a)
  ELSE IF node.operator \in arithmeticOperators
  THEN IF leftType \notin numericTypes \/ rightType \notin numericTypes
       THEN typeError(a, node,
                      "Arithmetic operators require numeric operands.")
       ELSE IF leftType = "TOKEN_FLOAT" \/ rightType = "TOKEN_FLOAT"
       THEN Typed("TOKEN_FLOAT", a)
       ELSE Typed("TOKEN_INT", a)
  ELSE IF node.operator \in comparisonOperators
  THEN IF leftType # rightType
       THEN typeError(a, node,
                      "Comparison operators require compatible operands.")
       ELSE Typed("TOKEN_INT", a)
  ELSE IF node.operator \in {"TOKEN_AND", "TOKEN_OR"}
  THEN IF leftType # "TOKEN_INT" \/ rightType # "TOKEN_INT"
       THEN typeError(a, node, "Logical operators require boolean operands.")
       ELSE Typed("TOKEN_INT", a)
  ELSE typeError(a, node, "Unknown binary operator.")

analyzeBinary(src, a, node) ==
  With(analyzeExpression(src, a, node.left), LAMBDA l :
  With(analyzeExpression(src, l.a, node.right), LAMBDA r :
    binaryType(r.a, node, l.type, r.type)))

\* analyzeUnary once the operand type is known
unaryType(a, node, operandType) ==
  IF operandType = "TOKEN_ERROR" THEN Typed("TOKEN_ERROR", a)
  ELSE IF node.operator = "TOKEN_MINUS"
  THEN IF operandType \notin numericTypes
       THEN typeError(a, node, "Unary negation requires a numeric operand.")
       ELSE Typed(operandType, a)
  ELSE IF node.operator = "TOKEN_NOT"
  THEN IF operandType # "TOKEN_INT"
       THEN typeError(a, node, "Logical NOT requires a boolean operand.")
       ELSE Typed("TOKEN_INT", a)
  ELSE typeError(a, node, "Unknown unary operator.")

analyzeUnary(src, a, node) ==
  With(analyzeExpression(src, a, node.right), LAMBDA operand :
    unaryType(operand.a, node, operand.type))

\* strchr(node->value.start, '.'): a '.' anywhere from the literal's first
\* byte to the end of the buffer
analyzeLiteral(src, a, node) ==
  IF node.value.type = "TOKEN_NUMBER"
  THEN IF \E i \in node.value.start..(Len(src) - 1) : At(src, i) = 46
       THEN Typed("TOKEN_FLOAT", a)
       ELSE Typed("TOKEN_INT", a)
  ELSE IF node.value.type = "TOKEN_STRING" THEN Typed("TOKEN_CHAR", a)
  ELSE typeError(a, node, "Unknown literal type.")

\* analyzeVariable's result for the symbol resolveSymbol returned
variableType(a, node, symbol) ==
  IF symbol = NoSymbol THEN typeError(a, node, "Undefined variable.")
  ELSE IF symbol.type # "SYMBOL_VARIABLE"
  THEN typeError(a, node, "Expected a variable name.")
  ELSE Typed(symbol.dataType, a)

\* the call is recorded in refs
analyzeVariable(src, a, node) ==
  With(variableType(a, node,
                    resolveSymbol(a.table, cString(src, node.name.start))),
       LAMBDA r :
         Typed(r.type,
               [r.a EXCEPT !.refs =
                  Append(@, [name |-> node.name, table |-> a.table,
                             type |-> r.type,
                             errors |-> r.a.errorCount - a.errorCount])]))

\* analyzeAssignment once the value's type and the symbol are known
assignmentType(a, node, valueType, symbol) ==
  IF symbol = NoSymbol
  THEN typeError(a, node, "Undefined variable in assignment.")
  ELSE IF symbol.type # "SYMBOL_VARIABLE"
  THEN typeError(a, node, "Cannot assign to a function.")
  ELSE IF valueType # "TOKEN_ERROR" /\ valueType # symbol.dataType
  THEN typeError(a, node, "Type mismatch in assignment.")
  ELSE Typed(valueType, a)

analyzeAssignment(src, a, node) ==
  With(analyzeExpression(src, a, node.value), LAMBDA value :
    assignmentType(value.a, node, value.type,
                   resolveSymbol(value.a.table,
                                 cString(src, node.name.start))))

\* the argument loop of analyzeCall from argument i on
analyzeArguments(src, a, node, symbol, i) ==
  IF i > Len(node.arguments) THEN a
  ELSE With(analyzeExpression(src, a, node.arguments[i]), LAMBDA arg :
         analyzeArguments(src,
           IF arg.type # "TOKEN_ERROR" /\ arg.type # symbol.paramTypes[i]
           THEN semanticError(arg.a, lineOf(node.arguments[i]),
                              columnOf(node.arguments[i]),
                              "Argument type mismatch.")
           ELSE arg.a,
           node, symbol, i + 1))

\* analyzeCall for the symbol resolveSymbol returned
callType(src, a, node, symbol) ==
  IF symbol = NoSymbol THEN typeError(a, node, "Undefined function.")
  ELSE IF symbol.type # "SYMBOL_FUNCTION"
  THEN typeError(a, node, "Cannot call a variable.")
  ELSE IF Len(node.arguments) # symbol.paramCount
  THEN typeError(a, node, "Wrong number of arguments.")
  ELSE Typed(symbol.dataType, analyzeArguments(src, a, node, symbol, 1))

analyzeCall(src, a, node) ==
  callType(src, a, node,
           resolveSymbol(a.table, cString(src, node.name.start)))

\* the call analyzeExpression(node) that started in a and returned r is
\* recorded in inferred
noted(a, node, r) ==
  Typed(r.type,
        [r.a EXCEPT !.inferred =
           Append(@, [node |-> node, type |-> r.type,
                      reported |-> r.a.errorCount - a.errorCount])])

analyzeExpression(src, a, node) ==
  IF node = NULL THEN Typed("TOKEN_ERROR", a)
  ELSE
    noted(a, node,
      CASE node.type = "AST_BINARY" -> analyzeBinary(src, a, node)
        [] node.type = "AST_UNARY" -> analyzeUnary(src, a, node)
        [] node.type = "AST_LITERAL" -> analyzeLiteral(src, a, node)
        [] node.type = "AST_VARIABLE" -> analyzeVariable(src, a, node)
        [] node.type = "AST_ASSIGNMENT" -> analyzeAssignment(src, a, node)
        [] node.type = "AST_CALL" -> analyzeCall(src, a, node)
        [] OTHER -> typeError(a, node, "Unknown expression type."))

\* a statement's result: the bool returned and the analyser state afterwards
Checked(ok, a) == [ok |-> ok, a |-> a]

\* "Condition must be a boolean expression." unless the condition's type
\* is TOKEN_INT or TOKEN_ERROR
checkCondition(cond, node) ==
  IF cond.type # "TOKEN_ERROR" /\ cond.type # "TOKEN_INT"
  THEN semanticError(cond.a, lineOf(node.condition),
                     columnOf(node.condition),
                     "Condition must be a boolean expression.")
  ELSE cond.a

\* analyzeVarDecl after the initializer: define the variable, return
\* symbol != NULL
defineDeclared(src, a, node) ==
  With(defineVariable(a, cString(src, node.name.start), node.varType,
                      node.line, node.column),
       LAMBDA d : Checked(d.symbol # NoSymbol, d.a))

analyzeVarDecl(src, a, node) ==
  IF node.initializer # NULL
  THEN With(analyzeExpression(src, a, node.initializer), LAMBDA init :
         defineDeclared(src,
           IF init.type # node.varType /\ init.type # "TOKEN_ERROR"
           THEN semanticError(init.a, node.line, node.column,
                              "Type mismatch in variable initialization.")
           ELSE init.a,
           node))
  ELSE defineDeclared(src, a, node)

\* the parameter loop of analyzeFunctionDecl from parameter i on
defineParameters(src, a, node, i) ==
  IF i > Len(node.params) THEN a
  ELSE defineParameters(src,
         defineVariable(a, cString(src, node.params[i].name.start),
                        node.params[i].type, node.params[i].name.line,
                        node.params[i].name.column).a,
         node, i + 1)

\* analyzeFunctionDecl without "currentFunctionReturnType =
\* previousReturnType"
analyzeFunctionDeclUnrestored(src, a, node) ==
  With(analyzeBlock(src,
         defineParameters(src,
           beginScope([a EXCEPT !.returnType = node.returnType]), node, 1),
         node.body),
       LAMBDA result : Checked(result.ok, endScope(result.a)))

analyzeFunctionDecl(src, a, node) ==
  With(analyzeBlock(src,
         defineParameters(src,
           beginScope([a EXCEPT !.returnType = node.returnType]), node, 1),
         node.body),
       LAMBDA result :
         Checked(result.ok,
                 [endScope(result.a) EXCEPT !.returnType = a.returnType]))

\* the call on node that started in a and returned r is recorded in scopes
notedScope(a, node, r) ==
  Checked(r.ok,
          [r.a EXCEPT !.scopes =
             Append(@, [type |-> node.type, ok |-> r.ok,
                        entered |-> a.table.scopeDepth,
                        left |-> r.a.table.scopeDepth])])

analyzeDeclaration(src, a, node) ==
  CASE node.type = "AST_VAR_DECL" -> analyzeVarDecl(src, a, node)
    [] node.type = "AST_FUNCTION_DECL" ->
         notedScope(a, node, analyzeFunctionDecl(src, a, node))
    [] OTHER -> analyzeStatement(src, a, node)

\* the call analyzeReturnStatement(node) that started in a and returned r
\* is recorded in returns
notedReturn(a, node, r) ==
  Checked(r.ok,
          [r.a EXCEPT !.returns =
             Append(@, [node |-> node, returnType |-> a.returnType,
                        ok |-> r.ok,
                        reported |-> r.a.errorCount - a.errorCount])])

analyzeStatement(src, a, node) ==
  CASE node.type = "AST_BLOCK" ->
         notedScope(a, node, analyzeBlock(src, a, node))
    [] node.type = "AST_IF" -> analyzeIfStatement(src, a, node)
    [] node.type = "AST_WHILE" -> analyzeWhileStatement(src, a, node)
    [] node.type = "AST_FOR" ->
         notedScope(a, node, analyzeForStatement(src, a, node))
    [] node.type = "AST_RETURN" ->
         notedReturn(a, node, analyzeReturnStatement(src, a, node))
    [] node.type = "AST_EXPRESSION_STMT" ->
         analyzeExpressionStatement(src, a, node)
    [] OTHER ->
         Checked(FALSE, semanticError(a, node.line, node.column,
                                      "Unknown statement type."))

\* the statement loop of analyzeBlock with the return of false taken
\* without its endScope
analyzeBlockLoopKeepingScope(src, a, node, i) ==
  IF i > Len(node.statements) THEN Checked(TRUE, endScope(a))
  ELSE With(analyzeDeclaration(src, a, node.statements[i]), LAMBDA r :
         IF ~r.ok THEN Checked(FALSE, r.a)
         ELSE analyzeBlockLoopKeepingScope(src, r.a, node, i + 1))

\* the statement loop of analyzeBlock from statement i on, ending the
\* scope where it returns
analyzeBlockLoop(src, a, node, i) ==
  IF i > Len(node.statements) THEN Checked(TRUE, endScope(a))
  ELSE With(analyzeDeclaration(src, a, node.statements[i]), LAMBDA r :
         IF ~r.ok THEN Checked(FALSE, endScope(r.a))
         ELSE analyzeBlockLoop(src, r.a, node, i + 1))

analyzeBlock(src, a, node) == analyzeBlockLoop(src, beginScope(a), node, 1)

analyzeIfStatement(src, a, node) ==
  With(analyzeExpression(src, a, node.condition), LAMBDA cond :
  With(analyzeStatement(src, checkCondition(cond, node), node.thenBranch),
       LAMBDA thenResult :
    IF node.elseBranch # NULL
    THEN With(analyzeStatement(src, thenResult.a, node.elseBranch),
              LAMBDA elseResult :
                Checked(thenResult.ok /\ elseResult.ok, elseResult.a))
    ELSE thenResult))

analyzeWhileStatement(src, a, node) ==
  With(analyzeExpression(src, a, node.condition), LAMBDA cond :
    analyzeStatement(src, checkCondition(cond, node), node.body))

\* analyzeForStatement after the initializer, in the state a
forClauses(src, a, node) ==
  With(IF node.condition # NULL
       THEN checkCondition(analyzeExpression(src, a, node.condition), node)
       ELSE a, LAMBDA a1 :
  With(IF node.increment # NULL
       THEN analyzeExpression(src, a1, node.increment).a
       ELSE a1, LAMBDA a2 :
  With(analyzeStatement(src, a2, node.body), LAMBDA result :
    Checked(result.ok, endScope(result.a)))))

analyzeForStatement(src, a, node) ==
  IF node.initializer # NULL
  THEN With(analyzeDeclaration(src, beginScope(a), node.initializer),
            LAMBDA init :
              IF ~init.ok THEN Checked(FALSE, endScope(init.a))
              ELSE forClauses(src, init.a, node))
  ELSE forClauses(src, beginScope(a), node)

analyzeReturnStatement(src, a, node) ==
  IF a.returnType = "TOKEN_VOID" /\ node.value # NULL
  THEN Checked(FALSE, semanticError(a, node.line, node.column,
                        "Cannot return a value from a void function."))
  ELSE IF a.returnType # "TOKEN_VOID" /\ node.value = NULL
  THEN Checked(FALSE, semanticError(a, node.line, node.column,
                        "Missing return value in non-void function."))
  ELSE IF node.value # NULL
  THEN With(analyzeExpression(src, a, node.value), LAMBDA value :
         IF value.type # "TOKEN_ERROR" /\ value.type # a.returnType
         THEN Checked(FALSE, semanticError(value.a, node.value.line,
                                           node.value.column,
                                           "Return type mismatch."))
         ELSE Checked(TRUE, value.a))
  ELSE Checked(TRUE, a)

analyzeExpressionStatement(src, a, node) ==
  Checked(TRUE, analyzeExpression(src, a, node.expression).a)

\* one iteration of the first pass of analyzeProgram: a function
\* declaration is defined, whatever defineFunction returns
registerDeclaration(src, a, node) ==
  IF node.type = "AST_FUNCTION_DECL"
  THEN defineFunction(a, cString(src, node.name.start), node.returnType,
                      [j \in 1..Len(node.params) |-> node.params[j].type],
                      node.line, node.column).a
  ELSE a

\* the first pass from declaration i on
RECURSIVE firstPass(_, _, _, _)
firstPass(src, a, declarations, i) ==
  IF i > Len(declarations) THEN a
  ELSE firstPass(src, registerDeclaration(src, a, declarations[i]),
                 declarations, i + 1)

\* the second pass from declaration i on, and the return
RECURSIVE secondPass(_, _, _, _)
secondPass(src, a, declarations, i) ==
  IF i > Len(declarations) THEN Checked(a.errorCount = 0, a)
  ELSE With(analyzeDeclaration(src, a, declarations[i]), LAMBDA r :
         IF ~r.ok THEN Checked(FALSE, r.a)
         ELSE secondPass(src, r.a, declarations, i + 1))

analyzeProgram(src, a, declarations) ==
  secondPass(src, firstPass(src, a, declarations, 1), declarations, 1)

\* the analyser before main calls it
SemIdle ==
  /\ sem = initSemanticAnalyzer
  /\ analysis = [input |-> "none", pass |-> 0, i |-> 0,
                 returned |-> FALSE, success |-> FALSE]

\* the driver is not part of the specification
MainIdle == main = [pc |-> "none"]

(***************************************************************************)
(* Scanner specification: the tokenize loop of main (-t), which calls      *)
(* scanToken until it returns EOF, continued by MaxEofScans further calls. *)
(***************************************************************************)

\* the sources consisting of one keyword of the table
KeywordSources == { hindiKeywords[i].keyword : i \in 1..Len(hindiKeywords) }

\* other sources: "x1 = 10;", "a<=b // c\n\"s\"", "f(1.5)&&!g", "1.x |"
OtherSources ==
  { <<120,49,32,61,32,49,48,59>>,
    <<97,60,61,98,32,47,47,32,99,10,34,115,34>>,
    <<102,40,49,46,53,41,38,38,33,103>>,
    <<49,46,120,32,124>>,
    <<>> }

\* sources of several lines: "a\nb", "a\n  b c", "\"x\ny\" z", "a // c\nb"
LineSources ==
  { <<97,10,98>>,
    <<97,10,32,32,98,32,99>>,
    <<34,120,10,121,34,32,122>>,
    <<97,32,47,47,32,99,10,98>> }

\* sources with bytes no token starts with, a lone `&`, a string without
\* its closing quote and a comment that ends the source:
\* "a & b", "@", "\"abc", "a //x"
UnexpectedSources ==
  { <<97,32,38,32,98>>,
    <<64>>,
    <<34,97,98,99>>,
    <<97,32,47,47,120>> }

LexSources ==
  KeywordSources \cup OtherSources \cup LineSources \cup UnexpectedSources

EofCount == Cardinality({ i \in 1..Len(tokens) : tokens[i].type = "TOKEN_EOF" })

\* the parser's variables while no parser exists
ParserIdle ==
  /\ keywordScan = FALSE
  /\ scanned = <<>>
  /\ nullDeref = "trap"
  /\ parser = [lexer |-> initLexer, current |-> noToken, previous |-> noToken,
               hadError |-> FALSE, panicMode |-> FALSE, diagnostics |-> <<>>,
               errors |-> <<>>, status |-> "ok",
               beyond |-> 0, farthest |-> -1]
  /\ program = <<>>
  /\ pstatus = "idle"

LexInit ==
  /\ source \in LexSources
  /\ lexer = initLexer
  /\ tokens = <<>>
  /\ ParserIdle
  /\ SemIdle
  /\ MainIdle

\* one call of scanToken by the tokenize loop
ScanStep ==
  /\ EofCount <= MaxEofScans
  /\ LET r == scanToken(source, lexer) IN
       /\ lexer' = r.lexer
       /\ tokens' = Append(tokens, r.token)
  /\ UNCHANGED <<source, parseVars, semVars>>

LexNext == ScanStep

SpecLex == LexInit /\ [][LexNext]_vars

(***************************************************************************)
(* C1.  For every keyword of the table, scanning a source that consists    *)
(* only of that keyword's bytes yields exactly one token of the keyword's  *)
(* kind whose slice is the whole source, followed by EOF, and no ERROR     *)
(* token.                                                                  *)
(***************************************************************************)
C1_KeywordIsOneToken ==
  \A i \in 1..Len(hindiKeywords) :
    source = hindiKeywords[i].keyword =>
      /\ \A k \in 1..Len(tokens) : tokens[k].type # "TOKEN_ERROR"
      /\ EofCount >= 1 =>
           /\ tokens[1].type = hindiKeywords[i].token
           /\ tokens[1].start = 0
           /\ tokens[1].length = Len(source)
           /\ tokens[2].type = "TOKEN_EOF"

\* a keyword source has been scanned up to its EOF token
C1_KeywordScanned ==
  /\ source \in KeywordSources
  /\ EofCount >= 1

(***************************************************************************)
(* C21.  Every non-error token reports the line and the column of its      *)
(* first byte, counted from 1: a token whose first byte is the k-th byte   *)
(* of line n has line n and column k, on the first line, on every later    *)
(* line, and for a string literal that spans several lines.                *)
(***************************************************************************)
\* the line of the byte at C offset `off`: 1 + the newlines before it
lineAt(src, off) == 1 + Cardinality({ i \in 1..off : src[i] = 10 })

\* the column of the byte at C offset `off`: its distance from the last
\* newline before it (from the start of the source on the first line)
columnAt(src, off) ==
  LET newlines == { i \in 1..off : src[i] = 10 }
      last == IF newlines = {} THEN 0
              ELSE CHOOSE i \in newlines : \A j \in newlines : j <= i
  IN off + 1 - last

C21_TokenReportsFirstByte ==
  \A k \in 1..Len(tokens) :
    tokens[k].type \notin {"TOKEN_ERROR", "TOKEN_EOF"} =>
      /\ tokens[k].line = lineAt(source, tokens[k].start)
      /\ tokens[k].column = columnAt(source, tokens[k].start)

\* a source of several lines has been scanned to its end: tokens of the
\* first line and of a later line, and a string literal with a newline in it
C21_LaterLineScanned ==
  /\ source = <<34,120,10,121,34,32,122>>
  /\ EofCount >= 1
  /\ \E k \in 1..Len(tokens) :
       /\ tokens[k].type = "TOKEN_STRING"
       /\ tokens[k].start = 0
       /\ tokens[k].length = 5
  /\ \E k \in 1..Len(tokens) :
       /\ tokens[k].type = "TOKEN_IDENTIFIER"
       /\ lineAt(source, tokens[k].start) = 2

(***************************************************************************)
(* The tokenize loop under weak fairness: a call of scanToken that can be  *)
(* made is made (the loop of main has no other exit than the EOF token).   *)
(***************************************************************************)
SpecLexFair == LexInit /\ [][LexNext]_vars /\ WF_vars(ScanStep)

(***************************************************************************)
(* C22.  For every source, successive scanToken calls reach an EOF token   *)
(* after finitely many calls: every call that returns a non-EOF token, an  *)
(* ERROR token included, consumes at least one byte.  The slices of the    *)
(* non-error tokens lie inside the source, do not overlap and appear in    *)
(* increasing start order.                                                 *)
(***************************************************************************)
\* the slices of the non-error tokens returned so far
slicesOrdered ==
  \A k \in 1..Len(tokens) :
    tokens[k].type # "TOKEN_ERROR" =>
      /\ tokens[k].start >= 0
      /\ tokens[k].length >= 0
      /\ tokens[k].start + tokens[k].length <= Len(source)
      /\ tokens[k].type # "TOKEN_EOF" => tokens[k].length >= 1
      /\ \A j \in 1..(k - 1) :
           tokens[j].type # "TOKEN_ERROR" =>
             tokens[k].start >= tokens[j].start + tokens[j].length

\* one call: a token is returned, the position never moves back or past the
\* terminating NUL, and it moves forward unless the token is EOF
callConsumes ==
  /\ Len(tokens') = Len(tokens) + 1
  /\ lexer'.current >= lexer.current
  /\ lexer'.current <= Len(source)
  /\ tokens'[Len(tokens')].type # "TOKEN_EOF" =>
       lexer'.current > lexer.current

C22_ScanningEndsSlicesOrdered ==
  /\ []slicesOrdered
  /\ [][callConsumes]_vars
  /\ <>(EofCount >= 1)

\* a source with an unexpected byte between two tokens has been scanned to
\* its EOF token
C22_ErrorTokenPassed ==
  /\ source = <<97,32,38,32,98>>
  /\ EofCount >= 1
  /\ \E k \in 1..Len(tokens) :
       /\ tokens[k].type = "TOKEN_ERROR"
       /\ k > 1
       /\ tokens[k - 1].type = "TOKEN_IDENTIFIER"
       /\ tokens[k + 1].type = "TOKEN_IDENTIFIER"

(***************************************************************************)
(* C23.  Once scanToken has returned an EOF token, every later call on the *)
(* same lexer returns an EOF token again and leaves the lexer's position,  *)
(* line and column unchanged.                                              *)
(***************************************************************************)
\* a call made after an EOF token was returned
callAfterEof ==
  EofCount >= 1 =>
    /\ Len(tokens') = Len(tokens) + 1
    /\ tokens'[Len(tokens')].type = "TOKEN_EOF"
    /\ tokens'[Len(tokens')] = tokens[Len(tokens)]
    /\ lexer'.current = lexer.current
    /\ lexer'.line = lexer.line
    /\ lexer'.column = lexer.column

C23_EofIsIdempotent == [][callAfterEof]_vars

\* scanToken has been called again after the EOF token of a source that
\* ends in a comment, and of one that ends in the middle of a string
C23_CalledAgainAfterEof ==
  /\ source \in UnexpectedSources
  /\ EofCount >= 2
  /\ Len(tokens) >= 3
  /\ lexer.current = Len(source)

(***************************************************************************)
(* Parser specification: initParser, then parse(), one iteration of its    *)
(* while (!check(EOF)) loop per step, until it returns, the process traps  *)
(* on a read through NULL, or an iteration consumes no token.              *)
(***************************************************************************)

\* the bytes of the keyword with token type t
kw(t) ==
  hindiKeywords[CHOOSE i \in 1..Len(hindiKeywords) :
                  hindiKeywords[i].token = t].keyword

\* well-formed sources without keywords
WellFormedAscii ==
  { <<97,59>>,   \* 'a;'
    <<123,32,97,59,32,123,32,98,59,32,125,32,99,59,32,125>>,   \* '{ a; { b; } c; }'
    <<102,40,49,44,32,120,41,59>>,   \* 'f(1, x);'
    <<40,97,41,59>>,   \* '(a);'
    <<102,40,41,59>>,   \* 'f();'
    <<120,32,61,32,121,32,61,32,49,46,53,59>>,   \* 'x = y = 1.5;'
    <<34,115,34,59>>,   \* '"s";'
    <<47,47,32,99,10,32,97,59>>,   \* '// c\n a;'
    <<>> }   \* ''

\* well-formed sources with keywords (int stands for the bytes of its keyword)
WellFormedKeyword ==
  { kw("TOKEN_IF") \o <<32,40,97,41,32,98,59,32>> \o kw("TOKEN_ELSE") \o <<32,99,59>>,   \* 'अगर (a) b; वरना c;'
    kw("TOKEN_WHILE") \o <<32,40,97,41,32,123,32,98,59,32,125>>,   \* 'जबतक (a) { b; }'
    kw("TOKEN_FOR") \o <<32,40,105,32,61,32,48,59,32,105,32,60,32,110,59,32,105,32,61,32,105,32,43,32,49,41,32,102,40,105,41,59>>,   \* 'दौर (i = 0; i < n; i = i + 1) f(i);'
    kw("TOKEN_FOR") \o <<32,40,59,59,41,32,123,32,125>>,   \* 'दौर (;;) { }'
    kw("TOKEN_FOR") \o <<32,40>> \o kw("TOKEN_INT") \o <<32,105,32,61,32,48,59,32,59,32,41,32,103,40,41,59>>,   \* 'दौर (पूर्णांक i = 0; ; ) g();'
    kw("TOKEN_RETURN") \o <<32,97,59>>,   \* 'वापस a;'
    kw("TOKEN_RETURN") \o <<59>>,   \* 'वापस;'
    kw("TOKEN_INT") \o <<32,102,40>> \o kw("TOKEN_INT") \o <<32,97,44,32>> \o kw("TOKEN_FLOAT") \o <<32,98,41,32,123,32>> \o kw("TOKEN_RETURN") \o <<32,97,32,43,32,98,59,32,125>>,   \* 'पूर्णांक f(पूर्णांक a, दशमलव b) { वापस a + b; }'
    kw("TOKEN_VOID") \o <<32,103,40,41,32,123,32>> \o kw("TOKEN_INT") \o <<32,121,32,61,32,50,59,32,123,32,121,59,32,125,32,125>> }   \* 'शून्य g() { पूर्णांक y = 2; { y; } }'

\* malformed sources without keywords
MalformedAscii ==
  { <<41>>,   \* ')'
    <<125>>,   \* '}'
    <<123,41,125>>,   \* '{)}'
    <<61,32,49,59>>,   \* '= 1;'
    <<40,41,40,49,41,59>>,   \* '()(1);'
    <<49,32,43,59>>,   \* '1 +;'
    <<45,59>>,   \* '-;'
    <<97,32,61,32,59>>,   \* 'a = ;'
    <<102,40,59>>,   \* 'f(;'
    <<40>>,   \* '('
    <<49>>,   \* '1'
    <<97,32,98,59>>,   \* 'a b;'
    <<49,32,61,32,50,59>>,   \* '1 = 2;'
    <<49,40,50,41,59>>,   \* '1(2);'
    <<123,32,97,59,32>>,   \* '{ a; '
    <<97,32,43,32,42,32,98,59>>,   \* 'a + * b;'
    <<38>>,   \* '&'
    <<34,115>>,   \* '"s'
    <<102,40,44,41,59>>,   \* 'f(,);'
    <<123,32,125,32,125>> }   \* '{ } }'

\* malformed sources with keywords
MalformedKeyword ==
  { kw("TOKEN_DO") \o <<32,59>>,   \* 'करो ;'
    kw("TOKEN_BREAK") \o <<59>>,   \* 'रुको;'
    kw("TOKEN_CONTINUE") \o <<59>>,   \* 'जारी;'
    kw("TOKEN_IF") \o <<32,40,41,32,97,59>>,   \* 'अगर () a;'
    kw("TOKEN_WHILE") \o <<32,40,41,32,97,59>>,   \* 'जबतक () a;'
    kw("TOKEN_ELSE") \o <<32,97,59>>,   \* 'वरना a;'
    kw("TOKEN_INT") \o <<32,59>>,   \* 'पूर्णांक ;'
    kw("TOKEN_INT") \o <<32,102,40>> \o kw("TOKEN_VOID") \o <<32,97,41,32,123,32,125>>,   \* 'पूर्णांक f(शून्य a) { }'
    kw("TOKEN_INT") \o <<32,102,40>> \o kw("TOKEN_INT") \o <<41,32,123,32,125>>,   \* 'पूर्णांक f(पूर्णांक) { }'
    kw("TOKEN_FOR") \o <<32,40,59,59,41,32,59>>,   \* 'दौर (;;) ;'
    kw("TOKEN_IF") \o <<32,40,97,41,32,41,32,98,59>>,   \* 'अगर (a) ) b;'
    <<123,32>> \o kw("TOKEN_DO") \o <<32,125>>,   \* '{ करो }'
    kw("TOKEN_INT") \o <<32,120>>,   \* 'पूर्णांक x'
    kw("TOKEN_INT") \o <<32,102,40>>,   \* 'पूर्णांक f('
    kw("TOKEN_RETURN") \o <<32,41>> }   \* 'वापस )'


\* Declarations: a type keyword, the identifier x, a separator and a tail.
\* The separators are "", " ", "  ", "\n" and "// c\n"; the tails are
\* "(){}", "=(1);", ";(1);", "= 1;" and ";".
DeclSeparators ==
  { <<>>, <<32>>, <<32,32>>, <<10>>, <<47,47,32,99,10>> }

DeclTails ==
  { <<40,41,123,125>>, <<61,40,49,41,59>>, <<59,40,49,41,59>>,
    <<61,32,49,59>>, <<59>> }

DeclSources ==
  { kw(t) \o <<32,120>> \o sep \o tail :
      t \in typeKeywords, sep \in DeclSeparators, tail \in DeclTails }

\* Expression statements: three operands a, b, c, each with an optional
\* unary - or !, joined by two operators (binary or =), and a final ";".
UnaryPrefixes == { <<>>, <<45>>, <<33>> }

OperatorBytes ==
  { <<124,124>>,
    <<38,38>>,
    <<61,61>>,
    <<33,61>>,
    <<60>>,
    <<62>>,
    <<60,61>>,
    <<62,61>>,
    <<43>>,
    <<45>>,
    <<42>>,
    <<47>>,
    <<37>>,
    <<61>> }

ExprText(u1, o1, u2, o2, u3) ==
  u1 \o <<97,32>> \o o1 \o <<32>> \o u2 \o <<98,32>> \o o2 \o <<32>>
     \o u3 \o <<99,59>>

ThreeOperandSources ==
  { ExprText(u1, o1, u2, o2, u3) :
      u1 \in UnaryPrefixes, u2 \in UnaryPrefixes, u3 \in UnaryPrefixes,
      o1 \in OperatorBytes, o2 \in OperatorBytes }

\* expression statements with groupings, calls and longer chains
OtherExprSources ==
  { <<40,97,32,43,32,98,41,32,42,32,99,59>>,   \* '(a + b) * c;'
    <<102,40,97,32,43,32,98,44,32,99,32,42,32,100,41,32,45,32,49,59>>,   \* 'f(a + b, c * d) - 1;'
    <<97,32,61,32,40,98,32,61,32,99,41,32,43,32,49,59>>,   \* 'a = (b = c) + 1;'
    <<45,40,97,32,43,32,98,41,59>>,   \* '-(a + b);'
    <<33,45,97,59>>,   \* '!-a;'
    <<97,32,42,32,40,98,32,43,32,99,41,32,42,32,100,59>>,   \* 'a * (b + c) * d;'
    <<97,32,124,124,32,98,32,38,38,32,99,32,61,61,32,100,32,60,32,101,32,43,32,102,32,42,32,45,103,59>>,   \* 'a || b && c == d < e + f * -g;'
    <<97,32,45,32,98,32,45,32,99,32,45,32,100,59>>,   \* 'a - b - c - d;'
    <<97,32,61,32,98,32,61,32,99,32,61,32,100,59>>,   \* 'a = b = c = d;'
    <<102,40,41,32,43,32,103,40,49,41,40,50,41,59>> }   \* 'f() + g(1)(2);'

ExprSources == ThreeOperandSources \cup OtherExprSources

\* the messages of consume for a missing terminator
TerminatorMessages ==
  { "Expect ';' after variable declaration.",
    "Expect ';' after loop condition.",
    "Expect ';' after return value.",
    "Expect ';' after expression.",
    "Expect ')' after parameters.",
    "Expect '}' after block.",
    "Expect ')' after if condition.",
    "Expect ')' after while condition.",
    "Expect ')' after for clauses.",
    "Expect ')' after arguments.",
    "Expect ')' after expression." }

\* two statements, the terminator of the first missing
MissingTerminatorSources ==
  { <<97,32,98,59>>,   \* 'a b;'
    <<120,32,61,32,49,32,121,32,61,32,50,59>>,   \* 'x = 1 y = 2;'
    <<102,40,49,41,32,103,40,50,41,59>>,   \* 'f(1) g(2);'
    kw("TOKEN_RETURN") \o <<32,97,32,98,59>>,   \* 'वापस a b;'
    kw("TOKEN_INT") \o <<32,120,32>> \o kw("TOKEN_INT") \o <<32,121,59>>,   \* 'पूर्णांक x पूर्णांक y;'
    kw("TOKEN_INT") \o <<32,120,32,61,32,49,32,121,59>>,   \* 'पूर्णांक x = 1 y;'
    <<40,97,32,98,59>> }   \* '(a b;'

\* two errors, the second after the ; that ends the first statement
TwoErrorSources ==
  { <<97,32,98,59,32,99,32,100,59>>,   \* 'a b; c d;'
    <<49,32,43,32,59,32,50,32,43,32,59>>,   \* '1 + ; 2 + ;'
    <<97,32,98,59,32,40,99,59>>,   \* 'a b; (c;'
    <<97,32,98,59,32>> \o kw("TOKEN_IF") \o <<32,99,41,32,100,59>>,   \* 'a b; अगर c) d;'
    <<97,32,98,59,32>> \o kw("TOKEN_INT") \o <<32,120,32,121,59>>,   \* 'a b; पूर्णांक x y;'
    kw("TOKEN_INT") \o <<32,120,32,121,59,32>> \o kw("TOKEN_RETURN") \o <<32,97,32,98,59>> }   \* 'पूर्णांक x y; वापस a b;'

\* errors of several kinds in one source
MixedErrorSources ==
  { <<97,32,98,32,99,59>>,   \* 'a b c;'
    <<97,32,64,32,98,59>>,   \* 'a @ b;'
    <<97,32,98,59,32,49,32,43,32,59,32,99,32,64,32,100,59>>,   \* 'a b; 1 + ; c @ d;'
    <<64,32,97,32,98,59,32,49,32,43,32,59>>,   \* '@ a b; 1 + ;'
    <<49,32,43,32,59,32,97,32,98,59,32,64,59>> }   \* '1 + ; a b; @;'

ErrorSources ==
  MissingTerminatorSources \cup TwoErrorSources \cup MixedErrorSources

\* the documented Hello World program (README, examples/hello.hc):
\*   शून्य मुख्य() {
\*       लिखो("नमस्ते दुनिया!");
\*       वापस 0;
\*   }
HelloWorld ==
  <<224,164,182,224,165,130,224,164,168,224,165,141,224,164,175,32,224,164,
    174,224,165,129,224,164,150,224,165,141,224,164,175,40,41,32,123,10,32,
    32,32,32,224,164,178,224,164,191,224,164,150,224,165,139,40,34,224,164,
    168,224,164,174,224,164,184,224,165,141,224,164,164,224,165,135,32,224,
    164,166,224,165,129,224,164,168,224,164,191,224,164,175,224,164,190,33,
    34,41,59,10,32,32,32,32,224,164,181,224,164,190,224,164,170,224,164,184,
    32,48,59,10,125,10>>

\* the parameter list of n parameters: पूर्णांक a, पूर्णांक b, ...
RECURSIVE parameterList(_)
parameterList(n) ==
  IF n = 0 THEN <<>>
  ELSE (IF n = 1 THEN <<>> ELSE parameterList(n - 1) \o <<44,32>>)
       \o kw("TOKEN_INT") \o <<32, 96 + n>>

\* शून्य f(P) { } with the parameter list P of n parameters
parameterSource(n) ==
  kw("TOKEN_VOID") \o <<32,102,40>> \o parameterList(n)
    \o <<41,32,123,32,125>>

ParameterSources == { parameterSource(n) : n \in 7..10 }

\* the inputs of the parser: a source, the token stream and the build
ParseInputs ==
  { [src |-> s, keywordScan |-> FALSE, nullDeref |-> "trap"] :
       s \in WellFormedAscii \cup ExprSources }
  \cup { [src |-> s, keywordScan |-> TRUE, nullDeref |-> n] :
       s \in DeclSources, n \in {"trap", "zero"} }
  \cup { [src |-> s, keywordScan |-> TRUE, nullDeref |-> "trap"] :
       s \in WellFormedKeyword }
  \cup { [src |-> s, keywordScan |-> FALSE, nullDeref |-> n] :
       s \in MalformedAscii \cup WellFormedKeyword, n \in {"trap", "zero"} }
  \cup { [src |-> s, keywordScan |-> TRUE, nullDeref |-> n] :
       s \in MalformedKeyword \cup ErrorSources, n \in {"trap", "zero"} }
  \cup { [src |-> HelloWorld, keywordScan |-> k, nullDeref |-> n] :
       k \in BOOLEAN, n \in {"trap", "zero"} }
  \cup { [src |-> s, keywordScan |-> TRUE, nullDeref |-> n] :
       s \in ParameterSources, n \in {"trap", "zero"} }

\* the bytes that may lie behind the NUL where the lookahead can read
\* there: in a source whose last byte belongs to an identifier
beyondBytes(src) ==
  IF src # <<>> /\ isIdentifierPart(src[Len(src)]) THEN {0, 40} ELSE {0}

ParseInitFrom(inputs) ==
  \E i \in inputs : \E beyond \in beyondBytes(i.src) :
    /\ source = i.src
    /\ keywordScan = i.keywordScan
    /\ scanned = scanCalls(i.src, i.keywordScan)
    /\ nullDeref = i.nullDeref
    /\ lexer = initLexer
    /\ tokens = <<>>
    /\ parser = [initParser(i.src, initLexer) EXCEPT !.beyond = beyond]
    /\ program = <<>>
    /\ pstatus = "parsing"
    /\ SemIdle
    /\ MainIdle

ParseInit == ParseInitFrom(ParseInputs)

\* one iteration of the loop of parse(): a declaration, added if not NULL
ParseDeclaration ==
  /\ pstatus = "parsing"
  /\ ~check(parser, "TOKEN_EOF")
  /\ LET r == declaration(source, parser) IN
       /\ parser' = r.p
       /\ program' = IF r.node # NULL THEN Append(program, r.node)
                     ELSE program
       /\ pstatus' = CASE r.p.status = "trap" -> "crashed"
                       [] r.p.status = "hang" -> "hung"
                       [] ~consumed(parser, r.p) -> "hung"
                       [] OTHER -> "parsing"
  /\ UNCHANGED <<source, lexer, tokens, keywordScan, scanned, nullDeref,
                 semVars>>

\* parse() leaves its loop at EOF and returns the program
ParseReturn ==
  /\ pstatus = "parsing"
  /\ check(parser, "TOKEN_EOF")
  /\ pstatus' = "returned"
  /\ UNCHANGED <<source, lexer, tokens, keywordScan, scanned, nullDeref,
                 parser, program, semVars>>

ParseNext == ParseDeclaration \/ ParseReturn

SpecParse == ParseInit /\ [][ParseNext]_vars

(***************************************************************************)
(* C3.  After a type keyword and an identifier, declaration parses a       *)
(* function declaration if and only if the token that follows the          *)
(* identifier is `(`, whatever whitespace or comments separate them and    *)
(* whatever bytes come after a different next token; in every other case   *)
(* it parses a variable declaration.                                       *)
(***************************************************************************)

\* the third token of the source: the one after the type and the identifier
tokenAfterIdentifier(src) ==
  IF keywordAt(src, 0) = 0 THEN scanned[3].token
  ELSE With(tableScan(src, tableScan(src, initLexer).lexer), LAMBDA t2 :
         tableScan(src, t2.lexer).token)

\* the first iteration of parse() is over
FirstDeclarationDone == pstatus # "parsing" \/ parser.current.start > 0

RECURSIVE scanAll(_, _, _)
scanAll(src, lx, acc) ==
  LET r == scanToken(src, lx) IN
  IF r.token.type = "TOKEN_EOF" THEN Append(acc, r.token)
  ELSE scanAll(src, r.lexer, Append(acc, r.token))

\* binding strength in the reference grammar (0: not a binary operator)
refPrecedence(type) ==
  CASE type = "TOKEN_OR" -> 1
    [] type = "TOKEN_AND" -> 2
    [] type \in {"TOKEN_EQUALS", "TOKEN_NOT_EQUALS"} -> 3
    [] type \in {"TOKEN_LESS", "TOKEN_GREATER", "TOKEN_LESS_EQ",
                 "TOKEN_GREATER_EQ"} -> 4
    [] type \in {"TOKEN_PLUS", "TOKEN_MINUS"} -> 5
    [] type \in {"TOKEN_MULTIPLY", "TOKEN_DIVIDE", "TOKEN_MODULO"} -> 6
    [] OTHER -> 0

noTree == [k |-> "none"]

RECURSIVE RefExpr(_, _, _), RefLoop(_, _, _), RefUnary(_, _),
          RefPrimary(_, _), RefArgs(_, _, _)

\* an expression whose binary operators all bind at least as tightly as min
\* (min = 0 also admits an assignment)
RefExpr(ts, i, min) ==
  LET l == RefUnary(ts, i)
      r == IF l.tree = noTree THEN l ELSE RefLoop(ts, l, min)
  IN IF r.tree # noTree /\ min = 0 /\ ts[r.next].type = "TOKEN_ASSIGN"
     THEN LET v == RefExpr(ts, r.next + 1, 0) IN
          IF r.tree.k = "var" /\ v.tree # noTree
          THEN [tree |-> [k |-> "assign", at |-> r.tree.at, v |-> v.tree],
                next |-> v.next]
          ELSE [tree |-> noTree, next |-> v.next]
     ELSE r

RefLoop(ts, l, min) ==
  LET op == ts[l.next].type
      p == refPrecedence(op)
  IN IF p = 0 \/ p < min THEN l
     ELSE LET r == RefExpr(ts, l.next + 1, p + 1) IN
          IF r.tree = noTree THEN r
          ELSE RefLoop(ts, [tree |-> [k |-> "bin", op |-> op,
                                      l |-> l.tree, r |-> r.tree],
                            next |-> r.next], min)

RefUnary(ts, i) ==
  IF ts[i].type \in {"TOKEN_MINUS", "TOKEN_NOT"}
  THEN LET r == RefUnary(ts, i + 1) IN
       IF r.tree = noTree THEN r
       ELSE [tree |-> [k |-> "un", op |-> ts[i].type, x |-> r.tree],
             next |-> r.next]
  ELSE RefPrimary(ts, i)

RefArgs(ts, i, acc) ==
  LET a == RefExpr(ts, i, 0) IN
  IF a.tree = noTree THEN [args |-> <<noTree>>, next |-> a.next]
  ELSE IF ts[a.next].type = "TOKEN_COMMA"
  THEN RefArgs(ts, a.next + 1, Append(acc, a.tree))
  ELSE [args |-> Append(acc, a.tree), next |-> a.next]

RefPrimary(ts, i) ==
  CASE ts[i].type \in {"TOKEN_NUMBER", "TOKEN_STRING"} ->
         [tree |-> [k |-> "lit", at |-> ts[i].start], next |-> i + 1]
    [] ts[i].type = "TOKEN_IDENTIFIER" ->
         IF ts[i + 1].type # "TOKEN_LPAREN"
         THEN [tree |-> [k |-> "var", at |-> ts[i].start], next |-> i + 1]
         ELSE LET as == IF ts[i + 2].type = "TOKEN_RPAREN"
                        THEN [args |-> <<>>, next |-> i + 2]
                        ELSE RefArgs(ts, i + 2, <<>>)
              IN IF noTree \in { as.args[k] : k \in 1..Len(as.args) }
                    \/ ts[as.next].type # "TOKEN_RPAREN"
                 THEN [tree |-> noTree, next |-> as.next]
                 ELSE [tree |-> [k |-> "call", at |-> ts[i].start,
                                 args |-> as.args],
                       next |-> as.next + 1]
    [] ts[i].type = "TOKEN_LPAREN" ->
         LET e == RefExpr(ts, i + 1, 0) IN
         IF e.tree = noTree \/ ts[e.next].type # "TOKEN_RPAREN"
         THEN [tree |-> noTree, next |-> e.next]
         ELSE [tree |-> e.tree, next |-> e.next + 1]
    [] OTHER -> [tree |-> noTree, next |-> i]

\* the reference tree of a source that is one expression statement, or noTree
RefStatement(src) ==
  LET ts == scanAll(src, initLexer, <<>>)
      e == RefExpr(ts, 1, 0)
  IN IF /\ e.tree # noTree
        /\ ts[e.next].type = "TOKEN_SEMICOLON"
        /\ e.next + 1 = Len(ts)
        /\ \A k \in 1..Len(ts) : ts[k].type # "TOKEN_ERROR"
     THEN e.tree ELSE noTree

\* the tree of an expression node, without lines and columns
RECURSIVE Shape(_)
Shape(node) ==
  CASE node.type = "AST_LITERAL" -> [k |-> "lit", at |-> node.value.start]
    [] node.type = "AST_VARIABLE" -> [k |-> "var", at |-> node.name.start]
    [] node.type = "AST_UNARY" ->
         [k |-> "un", op |-> node.operator, x |-> Shape(node.right)]
    [] node.type = "AST_BINARY" ->
         [k |-> "bin", op |-> node.operator, l |-> Shape(node.left),
          r |-> Shape(node.right)]
    [] node.type = "AST_ASSIGNMENT" ->
         [k |-> "assign", at |-> node.name.start, v |-> Shape(node.value)]
    [] node.type = "AST_CALL" ->
         [k |-> "call", at |-> node.name.start,
          args |-> [i \in 1..Len(node.arguments) |->
                      Shape(node.arguments[i])]]
    [] OTHER -> noTree

C4_ExpressionTree ==
  (~keywordScan /\ pstatus = "returned" /\ RefStatement(source) # noTree) =>
     /\ ~parser.hadError
     /\ Len(program) = 1
     /\ program[1].type = "AST_EXPRESSION_STMT"
     /\ Shape(program[1].expression) = RefStatement(source)

\* "a + b * c;" was parsed as a + (b * c), "a - b - c;" as (a - b) - c and
\* "a = b = c;" as a = (b = c)
C4_PrecedenceParsed ==
  /\ pstatus = "returned"
  /\ source = <<97,32,43,32,98,32,42,32,99,59>>
  /\ Shape(program[1].expression) =
       [k |-> "bin", op |-> "TOKEN_PLUS", l |-> [k |-> "var", at |-> 0],
        r |-> [k |-> "bin", op |-> "TOKEN_MULTIPLY",
               l |-> [k |-> "var", at |-> 4], r |-> [k |-> "var", at |-> 8]]]

(***************************************************************************)
(* C5.  For every token sequence, well-formed or not, parse terminates     *)
(* and returns a Program with the current token at EOF: each iteration of  *)
(* the top-level and block loops consumes at least one token, and the      *)
(* parser never builds a node from an absent (NULL) expression that the    *)
(* node constructor dereferences.                                          *)
(***************************************************************************)
C5_ParseReturns ==
  /\ pstatus \in {"parsing", "returned"}
  /\ pstatus = "returned" => check(parser, "TOKEN_EOF")

\* a stray `)` in statement position, scanned by scanToken, has stopped the
\* parse
C5_StrayParenStopsParse ==
  /\ ~keywordScan
  /\ source = <<41>>
  /\ pstatus \in {"crashed", "hung"}

(***************************************************************************)
(* Analyser specification: parse(), then analyzeProgram on the AST of a    *)
(* source that parsed without error (main calls it only then), one loop    *)
(* iteration of its two passes per step.  The keyword table's token stream *)
(* is used, so that declarations reach the analyser.  With input           *)
(* "repeated" analyzeProgram is given the same AstProgram with every       *)
(* declaration node entered twice in the declarations array: an AST the    *)
(* parser does not build, and the only kind in which two names are the     *)
(* same C string.                                                          *)
(***************************************************************************)

\* parse(): the loop of ParseDeclaration and ParseReturn, run to its end
RECURSIVE parseLoop(_, _, _)
parseLoop(src, declarations, p) ==
  IF p.status # "ok" \/ check(p, "TOKEN_EOF")
  THEN [declarations |-> declarations, p |-> p]
  ELSE With(declaration(src, p), LAMBDA r :
         IF r.p.status = "ok" /\ ~consumed(p, r.p)
         THEN [declarations |-> declarations, p |-> hung(r.p)]
         ELSE parseLoop(src,
                        IF r.node # NULL THEN Append(declarations, r.node)
                        ELSE declarations,
                        r.p))

parse(src, p) == parseLoop(src, <<>>, p)

\* a declaration of x at top level, or none
OuterDeclarations ==
  {
    <<>>,
    \* पूर्णांक x; 
    kw("TOKEN_INT") \o <<32,120,59,32>>,
    \* दशमलव x; 
    kw("TOKEN_FLOAT") \o <<32,120,59,32>> }
\* a block, a block using its x, a for statement and a function body, each declaring its own x
InnerScopes ==
  {
    \* { वर्ण x; } 
    <<123,32>> \o kw("TOKEN_CHAR") \o <<32,120,59,32,125,32>>,
    \* { वर्ण x; x; } 
    <<123,32>> \o kw("TOKEN_CHAR") \o <<32,120,59,32,120,59,32,125,32>>,
    \* दौर (वर्ण x; ; ) { } 
    kw("TOKEN_FOR") \o <<32,40>> \o kw("TOKEN_CHAR") \o <<32,120,59,32,59,32,41,32,123,32,125,32>>,
    \* शून्य f() { वर्ण x; } 
    kw("TOKEN_VOID") \o <<32,102,40,41,32,123,32>> \o kw("TOKEN_CHAR") \o <<32,120,59,32,125,32>> }

\* a reference to x, or none
References == { <<>>, <<120,59,32>> }

\* [outer declaration] [reference] inner scope [reference]
ScopeText(outer, before, inner, after) == outer \o before \o inner \o after

ScopeSources ==
  { ScopeText(o, b, i, a) : o \in OuterDeclarations, b \in References,
                            i \in InnerScopes, a \in References }

\* x declared twice at one scope depth
SameDepthSources ==
  {
    \* पूर्णांक x; पूर्णांक x;
    kw("TOKEN_INT") \o <<32,120,59,32>> \o kw("TOKEN_INT") \o <<32,120,59>>,
    \* पूर्णांक x; दशमलव x;
    kw("TOKEN_INT") \o <<32,120,59,32>> \o kw("TOKEN_FLOAT") \o <<32,120,59>>,
    \* { पूर्णांक x; पूर्णांक x; }
    <<123,32>> \o kw("TOKEN_INT") \o <<32,120,59,32>> \o kw("TOKEN_INT") \o <<32,120,59,32,125>>,
    \* पूर्णांक x; { वर्ण y; दशमलव y; }
    kw("TOKEN_INT") \o <<32,120,59,32,123,32>> \o kw("TOKEN_CHAR") \o <<32,121,59,32>> \o kw("TOKEN_FLOAT") \o <<32,121,59,32,125>>,
    \* शून्य f() { पूर्णांक x; पूर्णांक x; }
    kw("TOKEN_VOID") \o <<32,102,40,41,32,123,32>> \o kw("TOKEN_INT") \o <<32,120,59,32>> \o kw("TOKEN_INT") \o <<32,120,59,32,125>> }

\* x declared again at a deeper scope depth
ShadowSources ==
  {
    \* पूर्णांक x; { दशमलव x; }
    kw("TOKEN_INT") \o <<32,120,59,32,123,32>> \o kw("TOKEN_FLOAT") \o <<32,120,59,32,125>>,
    \* पूर्णांक x; { दशमलव x; x; }
    kw("TOKEN_INT") \o <<32,120,59,32,123,32>> \o kw("TOKEN_FLOAT") \o <<32,120,59,32,120,59,32,125>>,
    \* पूर्णांक x; { दशमलव x; { वर्ण x; x; } }
    kw("TOKEN_INT") \o <<32,120,59,32,123,32>> \o kw("TOKEN_FLOAT") \o <<32,120,59,32,123,32>> \o kw("TOKEN_CHAR") \o <<32,120,59,32,120,59,32,125,32,125>>,
    \* शून्य f(पूर्णांक x) { दशमलव x; }
    kw("TOKEN_VOID") \o <<32,102,40>> \o kw("TOKEN_INT") \o <<32,120,41,32,123,32>> \o kw("TOKEN_FLOAT") \o <<32,120,59,32,125>> }

\* function declarations, with the same name and with different names
FunctionSources ==
  {
    \* शून्य f() { } शून्य f() { }
    kw("TOKEN_VOID") \o <<32,102,40,41,32,123,32,125,32>> \o kw("TOKEN_VOID") \o <<32,102,40,41,32,123,32,125>>,
    \* शून्य f() { } पूर्णांक f(पूर्णांक a) { वापस 1; }
    kw("TOKEN_VOID") \o <<32,102,40,41,32,123,32,125,32>> \o kw("TOKEN_INT") \o <<32,102,40>> \o kw("TOKEN_INT") \o <<32,97,41,32,123,32>> \o kw("TOKEN_RETURN") \o <<32,49,59,32,125>>,
    \* शून्य f() { } पूर्णांक x; शून्य f() { }
    kw("TOKEN_VOID") \o <<32,102,40,41,32,123,32,125,32>> \o kw("TOKEN_INT") \o <<32,120,59,32>> \o kw("TOKEN_VOID") \o <<32,102,40,41,32,123,32,125>>,
    \* शून्य f() { } शून्य g() { }
    kw("TOKEN_VOID") \o <<32,102,40,41,32,123,32,125,32>> \o kw("TOKEN_VOID") \o <<32,103,40,41,32,123,32,125>>,
    \* पूर्णांक f(पूर्णांक a) { वापस a; } f(1);
    kw("TOKEN_INT") \o <<32,102,40>> \o kw("TOKEN_INT") \o <<32,97,41,32,123,32>> \o kw("TOKEN_RETURN") \o <<32,97,59,32,125,32,102,40,49,41,59>>,
    \* शून्य f() { } f;
    kw("TOKEN_VOID") \o <<32,102,40,41,32,123,32,125,32,102,59>>,
    \* पूर्णांक f; शून्य f() { }
    kw("TOKEN_INT") \o <<32,102,59,32>> \o kw("TOKEN_VOID") \o <<32,102,40,41,32,123,32,125>> }

\* expressions and statements of each kind, well typed or not
TypeSources ==
  {
    \* 1 + 2;
    <<49,32,43,32,50,59>>,
    \* 1 + "s";
    <<49,32,43,32,34,115,34,59>>,
    \* 1 < 2;
    <<49,32,60,32,50,59>>,
    \* 1 < "s";
    <<49,32,60,32,34,115,34,59>>,
    \* 1 && 2;
    <<49,32,38,38,32,50,59>>,
    \* "s" || 1;
    <<34,115,34,32,124,124,32,49,59>>,
    \* -1;
    <<45,49,59>>,
    \* -"s";
    <<45,34,115,34,59>>,
    \* !1;
    <<33,49,59>>,
    \* !"s";
    <<33,34,115,34,59>>,
    \* 1; 2.5;
    <<49,59,32,50,46,53,59>>,
    \* पूर्णांक y = 1;
    kw("TOKEN_INT") \o <<32,121,32,61,32,49,59>>,
    \* पूर्णांक y = "s";
    kw("TOKEN_INT") \o <<32,121,32,61,32,34,115,34,59>>,
    \* पूर्णांक y = 1; y = 2;
    kw("TOKEN_INT") \o <<32,121,32,61,32,49,59,32,121,32,61,32,50,59>>,
    \* x = 1;
    <<120,32,61,32,49,59>>,
    \* f(1);
    <<102,40,49,41,59>>,
    \* वापस 1;
    kw("TOKEN_RETURN") \o <<32,49,59>>,
    \* वापस;
    kw("TOKEN_RETURN") \o <<59>>,
    \* पूर्णांक f() { वापस; }
    kw("TOKEN_INT") \o <<32,102,40,41,32,123,32>> \o kw("TOKEN_RETURN") \o <<59,32,125>>,
    \* पूर्णांक f() { वापस "s"; }
    kw("TOKEN_INT") \o <<32,102,40,41,32,123,32>> \o kw("TOKEN_RETURN") \o <<32,34,115,34,59,32,125>>,
    \* पूर्णांक f() { वापस 1; }
    kw("TOKEN_INT") \o <<32,102,40,41,32,123,32>> \o kw("TOKEN_RETURN") \o <<32,49,59,32,125>>,
    \* अगर (1) 2; वरना 3;
    kw("TOKEN_IF") \o <<32,40,49,41,32,50,59,32>> \o kw("TOKEN_ELSE") \o <<32,51,59>>,
    \* अगर ("s") { } वरना { वापस 1; }
    kw("TOKEN_IF") \o <<32,40,34,115,34,41,32,123,32,125,32>> \o kw("TOKEN_ELSE") \o <<32,123,32>> \o kw("TOKEN_RETURN") \o <<32,49,59,32,125>>,
    \* जबतक ("s") { }
    kw("TOKEN_WHILE") \o <<32,40,34,115,34,41,32,123,32,125>>,
    \* जबतक (1) { वापस 1; } 2;
    kw("TOKEN_WHILE") \o <<32,40,49,41,32,123,32>> \o kw("TOKEN_RETURN") \o <<32,49,59,32,125,32,50,59>>,
    \* दौर (;"s";1) { }
    kw("TOKEN_FOR") \o <<32,40,59,34,115,34,59,49,41,32,123,32,125>>,
    \* दौर (पूर्णांक i = 0; i < 3; i = i + 1) { i; }
    kw("TOKEN_FOR") \o <<32,40>> \o kw("TOKEN_INT") \o <<32,105,32,61,32,48,59,32,105,32,60,32,51,59,32,105,32,61,32,105,32,43,32,49,41,32,123,32,105,59,32,125>> }

\* Functions of each return type T whose body is one return statement:
\* "T f() { <return> }" with <return> one of "वापस;", "वापस 1;",
\* "वापस 2.5;", "वापस "s";", "वापस x;" and "वापस 1 + "s";"
ReturnStatements ==
  { kw("TOKEN_RETURN") \o <<59>>,
    kw("TOKEN_RETURN") \o <<32,49,59>>,
    kw("TOKEN_RETURN") \o <<32,50,46,53,59>>,
    kw("TOKEN_RETURN") \o <<32,34,115,34,59>>,
    kw("TOKEN_RETURN") \o <<32,120,59>>,
    kw("TOKEN_RETURN") \o <<32,49,32,43,32,34,115,34,59>> }

\* functions with returns in nested statements and nested functions
NestedReturnSources ==
  {
    \* पूर्णांक f() { शून्य g() { वापस; } वापस 1; }
    kw("TOKEN_INT") \o <<32,102,40,41,32,123,32>> \o kw("TOKEN_VOID") \o <<32,103,40,41,32,123,32>> \o kw("TOKEN_RETURN") \o <<59,32,125,32>> \o kw("TOKEN_RETURN") \o <<32,49,59,32,125>>,
    \* शून्य f() { पूर्णांक g() { वापस 1; } वापस; }
    kw("TOKEN_VOID") \o <<32,102,40,41,32,123,32>> \o kw("TOKEN_INT") \o <<32,103,40,41,32,123,32>> \o kw("TOKEN_RETURN") \o <<32,49,59,32,125,32>> \o kw("TOKEN_RETURN") \o <<59,32,125>>,
    \* पूर्णांक f() { शून्य g() { वापस 1; } वापस 1; }
    kw("TOKEN_INT") \o <<32,102,40,41,32,123,32>> \o kw("TOKEN_VOID") \o <<32,103,40,41,32,123,32>> \o kw("TOKEN_RETURN") \o <<32,49,59,32,125,32>> \o kw("TOKEN_RETURN") \o <<32,49,59,32,125>>,
    \* पूर्णांक f() { वापस 1; } शून्य g() { वापस; }
    kw("TOKEN_INT") \o <<32,102,40,41,32,123,32>> \o kw("TOKEN_RETURN") \o <<32,49,59,32,125,32>> \o kw("TOKEN_VOID") \o <<32,103,40,41,32,123,32>> \o kw("TOKEN_RETURN") \o <<59,32,125>>,
    \* पूर्णांक f() { अगर (1) वापस 1; वरना वापस; }
    kw("TOKEN_INT") \o <<32,102,40,41,32,123,32>> \o kw("TOKEN_IF") \o <<32,40,49,41,32>> \o kw("TOKEN_RETURN") \o <<32,49,59,32>> \o kw("TOKEN_ELSE") \o <<32>> \o kw("TOKEN_RETURN") \o <<59,32,125>>,
    \* दशमलव f() { जबतक (1) { वापस 1; } }
    kw("TOKEN_FLOAT") \o <<32,102,40,41,32,123,32>> \o kw("TOKEN_WHILE") \o <<32,40,49,41,32,123,32>> \o kw("TOKEN_RETURN") \o <<32,49,59,32,125,32,125>> }

ReturnSources ==
  { kw(t) \o <<32,102,40,41,32,123,32>> \o r \o <<32,125>> :
      t \in typeKeywords, r \in ReturnStatements }
  \cup NestedReturnSources

\* calls of functions declared before and after the call, with matching and
\* with wrong arguments, and calls of names that are no function
CallSources ==
  {
    \* f(1); पूर्णांक f(पूर्णांक a) { वापस 1; }
    <<102,40,49,41,59,32>> \o kw("TOKEN_INT") \o <<32,102,40>> \o kw("TOKEN_INT") \o <<32,97,41,32,123,32>> \o kw("TOKEN_RETURN") \o <<32,49,59,32,125>>,
    \* पूर्णांक f(पूर्णांक a) { वापस 1; } f(1);
    kw("TOKEN_INT") \o <<32,102,40>> \o kw("TOKEN_INT") \o <<32,97,41,32,123,32>> \o kw("TOKEN_RETURN") \o <<32,49,59,32,125,32,102,40,49,41,59>>,
    \* शून्य g() { } g();
    kw("TOKEN_VOID") \o <<32,103,40,41,32,123,32,125,32,103,40,41,59>>,
    \* g(); शून्य g() { }
    <<103,40,41,59,32>> \o kw("TOKEN_VOID") \o <<32,103,40,41,32,123,32,125>>,
    \* शून्य g() { } g(1);
    kw("TOKEN_VOID") \o <<32,103,40,41,32,123,32,125,32,103,40,49,41,59>>,
    \* पूर्णांक f(पूर्णांक a) { वापस 1; } f("s");
    kw("TOKEN_INT") \o <<32,102,40>> \o kw("TOKEN_INT") \o <<32,97,41,32,123,32>> \o kw("TOKEN_RETURN") \o <<32,49,59,32,125,32,102,40,34,115,34,41,59>>,
    \* h();
    <<104,40,41,59>>,
    \* पूर्णांक x; x();
    kw("TOKEN_INT") \o <<32,120,59,32,120,40,41,59>> }

\* Sources that break one rule: an expression that breaks it, one of
\* 1 + "s", -"s" and 1 < "s", in each of the places that check the type
\* of an expression.
ViolatingExpressions ==
  { <<49,32,43,32,34,115,34>>, <<45,34,115,34>>, <<49,32,60,32,34,115,34>> }

\* the text before and after the expression:  E;  E && 1;  !E;
\* पूर्णांक x; x = E;   शून्य f(पूर्णांक a) { } f(E);   पूर्णांक x = E;
\* अगर (E) { }   जबतक (E) { }   दौर (;E;) { }   पूर्णांक f() { वापस E; }
CheckingContexts ==
  { [name |-> "statement", before |-> <<>>, after |-> <<59>>],
    [name |-> "binary", before |-> <<>>, after |-> <<32,38,38,32,49,59>>],
    [name |-> "unary", before |-> <<33>>, after |-> <<59>>],
    [name |-> "assignment",
     before |-> kw("TOKEN_INT") \o <<32,120,59,32,120,32,61,32>>,
     after |-> <<59>>],
    [name |-> "argument",
     before |-> kw("TOKEN_VOID") \o <<32,102,40>> \o kw("TOKEN_INT")
                  \o <<32,97,41,32,123,32,125,32,102,40>>,
     after |-> <<41,59>>],
    [name |-> "initializer",
     before |-> kw("TOKEN_INT") \o <<32,120,32,61,32>>, after |-> <<59>>],
    [name |-> "if", before |-> kw("TOKEN_IF") \o <<32,40>>,
     after |-> <<41,32,123,32,125>>],
    [name |-> "while", before |-> kw("TOKEN_WHILE") \o <<32,40>>,
     after |-> <<41,32,123,32,125>>],
    [name |-> "for", before |-> kw("TOKEN_FOR") \o <<32,40,59>>,
     after |-> <<59,41,32,123,32,125>>],
    [name |-> "return",
     before |-> kw("TOKEN_INT") \o <<32,102,40,41,32,123,32>>
                  \o kw("TOKEN_RETURN") \o <<32>>,
     after |-> <<59,32,125>>] }

OneViolationSources ==
  { c.before \o e \o c.after :
      c \in CheckingContexts, e \in ViolatingExpressions }

\* sources whose scopes are left by a return of false from inside a
\* function body, a for statement and a block, and by reaching their end
ScopeExitSources ==
  {
    \* शून्य f() { दौर (;;) { वापस 1; } } पूर्णांक g() { }
    kw("TOKEN_VOID") \o <<32,102,40,41,32,123,32>> \o kw("TOKEN_FOR") \o <<32,40,59,59,41,32,123,32>> \o kw("TOKEN_RETURN") \o <<32,49,59,32,125,32,125,32>> \o kw("TOKEN_INT") \o <<32,103,40,41,32,123,32,125>>,
    \* { { वापस 1; } } शून्य g() { }
    <<123,32,123,32>> \o kw("TOKEN_RETURN") \o <<32,49,59,32,125,32,125,32>> \o kw("TOKEN_VOID") \o <<32,103,40,41,32,123,32,125>>,
    \* दौर (पूर्णांक i = 0; i < 1; i = i + 1) { पूर्णांक j; वापस 1; }
    kw("TOKEN_FOR") \o <<32,40>> \o kw("TOKEN_INT") \o <<32,105,32,61,32,48,59,32,105,32,60,32,49,59,32,105,32,61,32,105,32,43,32,49,41,32,123,32>> \o kw("TOKEN_INT") \o <<32,106,59,32>> \o kw("TOKEN_RETURN") \o <<32,49,59,32,125>>,
    \* शून्य f(पूर्णांक a) { { पूर्णांक b; } दौर (;;) पूर्णांक c; { } } पूर्णांक d;
    kw("TOKEN_VOID") \o <<32,102,40>> \o kw("TOKEN_INT") \o <<32,97,41,32,123,32,123,32>> \o kw("TOKEN_INT") \o <<32,98,59,32,125,32>> \o kw("TOKEN_FOR") \o <<32,40,59,59,41,32>> \o kw("TOKEN_INT") \o <<32,99,59,32,123,32,125,32,125,32>> \o kw("TOKEN_INT") \o <<32,100,59>> }

SemSources ==
  ScopeSources \cup SameDepthSources \cup ShadowSources
  \cup FunctionSources \cup TypeSources \cup ReturnSources
  \cup CallSources \cup OneViolationSources \cup ScopeExitSources

SemInputs ==
  { [src |-> s, input |-> i] : s \in SemSources,
                               i \in {"parsed", "repeated"} }

\* the loop position after i - 1 iterations of the pass over n declarations
position(pass, i, n) ==
  IF pass = 1 /\ i > n THEN [pass |-> 2, i |-> 1] ELSE [pass |-> pass, i |-> i]

SemInit ==
  \E inp \in SemInputs :
    /\ source = inp.src
    /\ keywordScan = TRUE
    /\ scanned = scanCalls(inp.src, TRUE)
    /\ nullDeref = "trap"
    /\ lexer = initLexer
    /\ tokens = <<>>
    /\ parser = initParser(inp.src, initLexer)
    /\ program = <<>>
    /\ pstatus = "parsing"
    /\ sem = initSemanticAnalyzer
    /\ analysis = [input |-> inp.input, pass |-> 0, i |-> 0,
                   returned |-> FALSE, success |-> FALSE]
    /\ MainIdle

\* the AstProgram analyzeProgram is called with
analysed(input, declarations) ==
  IF input = "repeated" THEN declarations \o declarations ELSE declarations

\* parse() has returned without error: initSemanticAnalyzer, and
\* analyzeProgram is entered
AnalyzeBegin ==
  /\ pstatus = "returned" /\ ~parser.hadError
  /\ analysis.pass = 0
  /\ sem' = initSemanticAnalyzer
  /\ program' = analysed(analysis.input, program)
  /\ analysis' = [analysis EXCEPT
                    !.pass = position(1, 1, Len(program)).pass, !.i = 1]
  /\ UNCHANGED <<lexVars, keywordScan, scanned, nullDeref, parser, pstatus,
                 main>>

\* one iteration of the first pass of analyzeProgram
AnalyzeRegister ==
  /\ analysis.pass = 1
  /\ sem' = registerDeclaration(source, sem, program[analysis.i])
  /\ analysis' = [analysis EXCEPT
                    !.pass = position(1, analysis.i + 1, Len(program)).pass,
                    !.i = position(1, analysis.i + 1, Len(program)).i]
  /\ UNCHANGED <<lexVars, parseVars, main>>

\* one iteration of the second pass: analyzeProgram returns false when
\* analyzeDeclaration does
AnalyzeDeclaration ==
  /\ analysis.pass = 2 /\ ~analysis.returned
  /\ analysis.i <= Len(program)
  /\ LET r == analyzeDeclaration(source, sem, program[analysis.i]) IN
       /\ sem' = r.a
       /\ analysis' = IF r.ok THEN [analysis EXCEPT !.i = @ + 1]
                      ELSE [analysis EXCEPT !.returned = TRUE,
                                            !.success = FALSE]
  /\ UNCHANGED <<lexVars, parseVars, main>>

\* return context->errorCount == 0
AnalyzeReturn ==
  /\ analysis.pass = 2 /\ ~analysis.returned
  /\ analysis.i > Len(program)
  /\ analysis' = [analysis EXCEPT !.returned = TRUE,
                                  !.success = (sem.errorCount = 0)]
  /\ UNCHANGED <<lexVars, parseVars, sem, main>>

SemNext ==
  \/ ParseDeclaration
  \/ ParseReturn
  \/ AnalyzeBegin
  \/ AnalyzeRegister
  \/ AnalyzeDeclaration
  \/ AnalyzeReturn

SpecSem == SemInit /\ [][SemNext]_vars

(***************************************************************************)
(* Names as the claims speak of them.  A Symbol keeps the C string that    *)
(* starts at its declaring token, a reference is a token: the identifier   *)
(* of either is the run of identifier bytes it starts with.                *)
(***************************************************************************)

\* the bytes of a token
tokenText(t) == Slice(source, t.start, t.length)

\* the identifier at the start of a symbol's name
declaredIdentifier(symbol) ==
  Slice(symbol.name, 0, identifierRun(symbol.name, initLexer).current)

\* the symbols declared with the identifier of the reference e that were in
\* the table when e was analysed, latest first
visible(e) ==
  SelectSeq(e.table.first,
            LAMBDA s : declaredIdentifier(s) = tokenText(e.name))

\* two entries of the declarations array are functions of the same name
sameNamedFunctions ==
  \E i, j \in 1..Len(program) :
    /\ i < j
    /\ program[i].type = "AST_FUNCTION_DECL"
    /\ program[j].type = "AST_FUNCTION_DECL"
    /\ tokenText(program[i].name) = tokenText(program[j].name)

C11_LiteralTypeFromSlice ==
  \A k \in 1..Len(sem.inferred) :
    LET e == sem.inferred[k] IN
      e.node.type = "AST_LITERAL" =>
        /\ e.reported = 0
        /\ e.node.value.type = "TOKEN_NUMBER" =>
             e.type = IF \E i \in 1..e.node.value.length :
                            tokenText(e.node.value)[i] = 46
                      THEN "TOKEN_FLOAT" ELSE "TOKEN_INT"
        /\ e.node.value.type = "TOKEN_STRING" => e.type = "TOKEN_CHAR"

\* a NUMBER literal without '.' has been analysed in a source that has a
\* '.' after it
C11_IntegerBeforeFraction ==
  \E k \in 1..Len(sem.inferred) :
    LET e == sem.inferred[k] IN
      /\ e.node.type = "AST_LITERAL"
      /\ e.node.value.type = "TOKEN_NUMBER"
      /\ \A i \in 1..e.node.value.length : tokenText(e.node.value)[i] # 46
      /\ \E i \in (e.node.value.start + e.node.value.length)..(Len(source) - 1) :
           At(source, i) = 46

\* the return statements in the subtree of node, each with the return type
\* of the function declaration that encloses it ("none" outside functions)
RECURSIVE returnsIn(_, _)
returnsIn(node, T) ==
  CASE node = NULL -> {}
    [] node.type = "AST_RETURN" -> { [node |-> node, T |-> T] }
    [] node.type = "AST_FUNCTION_DECL" -> returnsIn(node.body, node.returnType)
    [] node.type = "AST_BLOCK" ->
         UNION { returnsIn(node.statements[i], T) :
                   i \in 1..Len(node.statements) }
    [] node.type = "AST_IF" ->
         returnsIn(node.thenBranch, T) \cup returnsIn(node.elseBranch, T)
    [] node.type \in {"AST_WHILE", "AST_FOR"} -> returnsIn(node.body, T)
    [] OTHER -> {}

\* the type inferred for the expression node by the time of the analyser
\* state a ("none" if it was not analysed)
inferredType(a, node) ==
  IF \E k \in 1..Len(a.inferred) : a.inferred[k].node = node
  THEN a.inferred[CHOOSE k \in 1..Len(a.inferred) :
                    a.inferred[k].node = node].type
  ELSE "none"

\* the errors reported while the expression node was analysed
inferredErrors(a, node) ==
  IF \E k \in 1..Len(a.inferred) : a.inferred[k].node = node
  THEN a.inferred[CHOOSE k \in 1..Len(a.inferred) :
                    a.inferred[k].node = node].reported
  ELSE 0

operandTypes == {"TOKEN_INT", "TOKEN_FLOAT", "TOKEN_CHAR", "TOKEN_VOID"}

logicalOperators == {"TOKEN_AND", "TOKEN_OR"}

OperatorInputs ==
  { [arity |-> 2, operator |-> op, left |-> l, right |-> r] :
      op \in arithmeticOperators \cup comparisonOperators
               \cup logicalOperators,
      l \in operandTypes, r \in operandTypes }
  \cup { [arity |-> 1, operator |-> op, left |-> "none", right |-> r] :
           op \in {"TOKEN_MINUS", "TOKEN_NOT"}, r \in operandTypes }

OperatorInit ==
  /\ source = <<>>
  /\ lexer = initLexer
  /\ tokens = <<>>
  /\ ParserIdle
  /\ MainIdle
  /\ sem = initSemanticAnalyzer
  /\ \E inp \in OperatorInputs :
       analysis = [input |-> "operands", pass |-> 0, i |-> 0,
                   returned |-> FALSE, success |-> FALSE,
                   arity |-> inp.arity, operator |-> inp.operator,
                   left |-> inp.left, right |-> inp.right, type |-> "none"]

\* analyzeBinary after its two analyzeExpression calls
InferBinary ==
  /\ analysis.input = "operands" /\ analysis.arity = 2
  /\ ~analysis.returned
  /\ LET r == binaryType(sem, createBinary(NULL, analysis.operator, NULL),
                         analysis.left, analysis.right)
     IN /\ sem' = r.a
        /\ analysis' = [analysis EXCEPT !.returned = TRUE, !.type = r.type]
  /\ UNCHANGED <<lexVars, parseVars, main>>

\* analyzeUnary after its analyzeExpression call
InferUnary ==
  /\ analysis.input = "operands" /\ analysis.arity = 1
  /\ ~analysis.returned
  /\ LET r == unaryType(sem, createUnary(analysis.operator, NULL),
                        analysis.right)
     IN /\ sem' = r.a
        /\ analysis' = [analysis EXCEPT !.returned = TRUE, !.type = r.type]
  /\ UNCHANGED <<lexVars, parseVars, main>>

OperatorNext == InferBinary \/ InferUnary

SpecOperators == OperatorInit /\ [][OperatorNext]_vars

\* the table of operator types: the type of operator applied to operands
\* of types left and right (left "none" for a unary operator)
tableType(operator, left, right) ==
  IF left = "none"
  THEN IF operator = "TOKEN_MINUS"
       THEN IF right \in {"TOKEN_INT", "TOKEN_FLOAT"} THEN right
            ELSE "TOKEN_ERROR"
       ELSE IF right = "TOKEN_INT" THEN "TOKEN_INT" ELSE "TOKEN_ERROR"
  ELSE IF operator \in arithmeticOperators
  THEN IF {left, right} \subseteq {"TOKEN_INT", "TOKEN_FLOAT"}
       THEN IF "TOKEN_FLOAT" \in {left, right} THEN "TOKEN_FLOAT"
            ELSE "TOKEN_INT"
       ELSE "TOKEN_ERROR"
  ELSE IF operator \in comparisonOperators
  THEN IF left = right THEN "TOKEN_INT" ELSE "TOKEN_ERROR"
  ELSE IF {left, right} = {"TOKEN_INT"} THEN "TOKEN_INT" ELSE "TOKEN_ERROR"

(***************************************************************************)
(* C13.  For every operator and every combination of operand types in      *)
(* {INT, FLOAT, CHAR, VOID} the type inferred is the table's: arithmetic   *)
(* needs INT or FLOAT operands and gives FLOAT if either is FLOAT, else    *)
(* INT; comparison needs equal types and gives INT; && and || need INT     *)
(* operands and give INT; unary - needs INT or FLOAT and gives the operand *)
(* type; ! needs INT and gives INT; every other combination reports one    *)
(* error exactly and gives TOKEN_ERROR, and no other reports any.          *)
(***************************************************************************)
C13_OperatorTable ==
  (analysis.input = "operands" /\ analysis.returned) =>
     /\ analysis.type =
          tableType(analysis.operator, analysis.left, analysis.right)
     /\ sem.errorCount = IF analysis.type = "TOKEN_ERROR" THEN 1 ELSE 0
     /\ Len(sem.stderr) = sem.errorCount

\* an arithmetic operator has been applied to an INT and a FLOAT operand
C13_MixedArithmeticInferred ==
  /\ analysis.input = "operands" /\ analysis.returned
  /\ analysis.operator \in arithmeticOperators
  /\ analysis.left = "TOKEN_INT" /\ analysis.right = "TOKEN_FLOAT"
  /\ analysis.type = "TOKEN_FLOAT"

\* the errors reported while the expressions args[i..] were analysed
RECURSIVE inferredErrorsIn(_, _, _)
inferredErrorsIn(a, args, i) ==
  IF i > Len(args) THEN 0
  ELSE inferredErrors(a, args[i]) + inferredErrorsIn(a, args, i + 1)

\* the top-level declarations of the name of the call node
declarationsOf(node) ==
  { d \in 1..Len(program) :
      /\ program[d].type \in {"AST_FUNCTION_DECL", "AST_VAR_DECL"}
      /\ tokenText(program[d].name) = tokenText(node.name) }

\* the call node agrees with the signature of the function declaration f
matchesSignature(a, node, f) ==
  /\ f.type = "AST_FUNCTION_DECL"
  /\ Len(node.arguments) = Len(f.params)
  /\ \A i \in 1..Len(node.arguments) :
       inferredType(a, node.arguments[i])
         \in {f.params[i].type, "TOKEN_ERROR"}

TableNames == { <<97>>, <<98>> }

called(function, name, result) ==
  analysis' = [call |-> function, name |-> name, before |-> sem.table,
               result |-> result]

TableInit ==
  /\ source = <<>>
  /\ lexer = initLexer
  /\ tokens = <<>>
  /\ ParserIdle
  /\ MainIdle
  /\ sem = initSemanticAnalyzer
  /\ analysis = [call |-> "initSymbolTable", name |-> <<>>,
                 before |-> initSymbolTable, result |-> NoSymbol]

TableBeginScope ==
  /\ sem.table.scopeDepth < MaxScopeDepth
  /\ sem' = beginScope(sem)
  /\ called("beginScope", <<>>, NoSymbol)
  /\ UNCHANGED <<lexVars, parseVars, main>>

TableEndScope ==
  /\ sem.table.scopeDepth > 0
  /\ sem' = endScope(sem)
  /\ called("endScope", <<>>, NoSymbol)
  /\ UNCHANGED <<lexVars, parseVars, main>>

\* a define call has room: for its symbol, or for its report on stderr
defined(r) ==
  IF r.symbol = NoSymbol
  THEN Len(sem.stderr) < MaxRedefinitions
  ELSE Len(sem.table.first) < MaxSymbols

TableDefineVariable ==
  \E name \in TableNames :
    LET r == defineVariable(sem, name, "TOKEN_INT", 1, 1) IN
      /\ defined(r)
      /\ sem' = r.a
      /\ called("defineVariable", name, r.symbol)
      /\ UNCHANGED <<lexVars, parseVars, main>>

TableDefineFunction ==
  \E name \in TableNames :
    LET r == defineFunction(sem, name, "TOKEN_FLOAT", <<"TOKEN_INT">>, 1, 1) IN
      /\ defined(r)
      /\ sem' = r.a
      /\ called("defineFunction", name, r.symbol)
      /\ UNCHANGED <<lexVars, parseVars, main>>

TableResolve ==
  \E name \in TableNames :
    /\ called("resolveSymbol", name, resolveSymbol(sem.table, name))
    /\ UNCHANGED <<lexVars, parseVars, sem, main>>

TableNext ==
  \/ TableBeginScope
  \/ TableEndScope
  \/ TableDefineVariable
  \/ TableDefineFunction
  \/ TableResolve

SpecTable == TableInit /\ [][TableNext]_vars

\* the symbols of the table with the name
named(table, name) ==
  { k \in 1..Len(table.first) : table.first[k].name = name }

(***************************************************************************)
(* C24.  After any sequence of beginScope, endScope, defineVariable and    *)
(* defineFunction calls, resolveSymbol(name) returns the symbol of the     *)
(* innermost scope among the symbols with that name that are present, the  *)
(* one with the greatest scope depth, also when a function is defined      *)
(* while a deeper scope is open.                                           *)
(***************************************************************************)
C24_ResolveReturnsInnermost ==
  analysis.call = "resolveSymbol" =>
    IF named(sem.table, analysis.name) = {}
    THEN analysis.result = NoSymbol
    ELSE /\ analysis.result # NoSymbol
         /\ analysis.result.name = analysis.name
         /\ \A k \in named(sem.table, analysis.name) :
              sem.table.first[k].scopeDepth <= analysis.result.scopeDepth

\* a name is resolved while it is a variable of an open inner scope and a
\* function that was defined after the scope was opened
C24_FunctionDefinedInInnerScope ==
  /\ analysis.call = "resolveSymbol"
  /\ sem.table.scopeDepth = 1
  /\ Len(sem.table.first) = 2
  /\ sem.table.first[1].type = "SYMBOL_FUNCTION"
  /\ sem.table.first[2].type = "SYMBOL_VARIABLE"
  /\ sem.table.first[2].scopeDepth = 1
  /\ sem.table.first[1].name = analysis.name
  /\ sem.table.first[2].name = analysis.name

(***************************************************************************)
(* C25.  endScope removes exactly the symbols whose scope depth equals the *)
(* table's current depth, wherever they are in the list (first, middle,    *)
(* last, consecutive), leaves every other symbol in the table with its     *)
(* fields and relative order unchanged, and decrements the scope depth by  *)
(* exactly one.                                                            *)
(***************************************************************************)
C25_EndScopeRemovesCurrentDepth ==
  analysis.call = "endScope" =>
    /\ sem.table.scopeDepth = analysis.before.scopeDepth - 1
    /\ sem.table.first =
         SelectSeq(analysis.before.first,
                   LAMBDA s : s.scopeDepth # analysis.before.scopeDepth)
    /\ \A k \in 1..Len(sem.table.first) :
         sem.table.first[k].scopeDepth # analysis.before.scopeDepth

\* endScope has closed a scope whose two symbols were in the middle of the
\* list, next to each other, behind a function defined after them and in
\* front of a global variable
C25_MiddleOfListRemoved ==
  /\ analysis.call = "endScope"
  /\ analysis.before.scopeDepth = 1
  /\ Len(analysis.before.first) = 4
  /\ analysis.before.first[1].type = "SYMBOL_FUNCTION"
  /\ analysis.before.first[2].scopeDepth = 1
  /\ analysis.before.first[3].scopeDepth = 1
  /\ analysis.before.first[4].scopeDepth = 0
  /\ Len(sem.table.first) = 2

(***************************************************************************)
(* C26.  In every state reachable by initSymbolTable, beginScope, endScope *)
(* (called only at depth > 0), defineVariable and defineFunction, every    *)
(* function symbol has scope depth 0 and no two symbols in the table have  *)
(* both the same name and the same scope depth; a define call rejected as  *)
(* a redefinition returns no symbol and leaves the table unchanged.        *)
(***************************************************************************)
\* the symbol of the given kind that an accepted define call has pushed
pushed(type, scopeDepth) ==
  /\ analysis.result.type = type
  /\ analysis.result.name = analysis.name
  /\ analysis.result.scopeDepth = scopeDepth
  /\ sem.table.first = <<analysis.result>> \o analysis.before.first
  /\ sem.table.scopeDepth = analysis.before.scopeDepth

\* the define call was rejected: a symbol of the name and depth existed
rejected(scopeDepth) ==
  /\ analysis.result = NoSymbol
  /\ sem.table = analysis.before
  /\ \E k \in named(analysis.before, analysis.name) :
       analysis.before.first[k].scopeDepth = scopeDepth

C26_FunctionsGlobalNamesUniquePerDepth ==
  /\ \A k \in 1..Len(sem.table.first) :
       /\ sem.table.first[k].type = "SYMBOL_FUNCTION" =>
            sem.table.first[k].scopeDepth = 0
       /\ \A j \in 1..(k - 1) :
            ~ /\ sem.table.first[j].name = sem.table.first[k].name
              /\ sem.table.first[j].scopeDepth = sem.table.first[k].scopeDepth
  /\ analysis.call = "defineVariable" =>
       \/ pushed("SYMBOL_VARIABLE", analysis.before.scopeDepth)
       \/ rejected(analysis.before.scopeDepth)
  /\ analysis.call = "defineFunction" =>
       \/ pushed("SYMBOL_FUNCTION", 0)
       \/ rejected(0)

\* a defineFunction call made in an inner scope has been rejected because
\* of a global symbol of the name, while the table holds a function
C26_RedefinitionRejected ==
  /\ analysis.call = "defineFunction"
  /\ analysis.result = NoSymbol
  /\ analysis.before.scopeDepth >= 1
  /\ Len(sem.stderr) = 1
  /\ \E k \in 1..Len(sem.table.first) :
       sem.table.first[k].type = "SYMBOL_FUNCTION"

(***************************************************************************)
(* C19.  During a parse the first call of parserError sets hadError and    *)
(* panicMode and prints one diagnostic; every further call made while      *)
(* panicMode is set (for a missing terminator, a bad expression or an      *)
(* ERROR token) prints nothing; hadError is never cleared; and after a     *)
(* reported missing terminator the parser continues with the following     *)
(* tokens: the statements on both sides of the gap are in the program.     *)
(***************************************************************************)
C19_FirstErrorReportedRestSuppressed ==
  /\ parser.hadError <=> Len(parser.errors) >= 1
  /\ Len(parser.errors) >= 1 =>
       /\ parser.errors[1].panicMode = FALSE
       /\ parser.errors[1].printed = 1
       /\ parser.errors[1].flags = <<TRUE, TRUE>>
       /\ parser.diagnostics[1] = parser.errors[1].message
  /\ \A k \in 1..Len(parser.errors) :
       /\ parser.errors[k].panicMode => parser.errors[k].printed = 0
       /\ parser.errors[k].flags[1]
  /\ (source \in MissingTerminatorSources /\ pstatus # "parsing") =>
       /\ pstatus = "returned"
       /\ parser.errors[1].message \in TerminatorMessages
       /\ Len(program) = 2
       /\ check(parser, "TOKEN_EOF")

\* a parse has returned in which parserError was called for a missing
\* terminator, for a bad expression and for an ERROR token, the first call
\* outside panic mode and the others in it
C19_EveryKindOfErrorSuppressed ==
  /\ pstatus = "returned"
  /\ Len(parser.errors) >= 3
  /\ Len(parser.diagnostics) = 1
  /\ \E i, j, k \in 2..Len(parser.errors) :
       /\ parser.errors[i].message \in TerminatorMessages
       /\ parser.errors[j].message = "Expect expression."
       /\ parser.errors[k].message = "Unexpected character."

\* the tokens at which synchronize stops
synchronizationTokens ==
  {"TOKEN_INT", "TOKEN_FLOAT", "TOKEN_CHAR", "TOKEN_VOID", "TOKEN_IF",
   "TOKEN_WHILE", "TOKEN_FOR", "TOKEN_RETURN"}

(***************************************************************************)
(* C20.  Panic mode ends at a synchronization point: after a first syntax  *)
(* error, once the parser has passed a ; or reached one of the tokens INT, *)
(* FLOAT, CHAR, VOID, IF, WHILE, FOR, RETURN, panicMode is cleared, so a   *)
(* later, independent syntax error in the same source is reported as its   *)
(* own diagnostic.  Stated between the declarations of parse(): there      *)
(* panicMode is not set when the previous token is ; or the current token  *)
(* is one of these; and a parserError call entered with the previous token *)
(* a ; (an error that begins after a synchronization point) prints its     *)
(* diagnostic.                                                             *)
(***************************************************************************)
C20_PanicEndsAtSynchronizationPoint ==
  /\ (/\ pstatus \in {"parsing", "returned"}
      /\ \/ parser.previous.type = "TOKEN_SEMICOLON"
         \/ parser.current.type \in synchronizationTokens) =>
       ~parser.panicMode
  /\ (source \in TwoErrorSources /\ pstatus = "returned") =>
       Len(parser.diagnostics) = 2

\* a source with two errors separated by a ; has been parsed to its end
C20_TwoErrorsParsed ==
  /\ source \in TwoErrorSources
  /\ pstatus = "returned"
  /\ Len(parser.errors) >= 2

(***************************************************************************)
(* C28.  While parsing any parameter list, a function declaration's        *)
(* paramCount never exceeds 8, the capacity of its parameter array: no     *)
(* parameter is stored at index 8 or above, and a ninth parameter produces *)
(* the syntax error "Too many function parameters." (hadError set)         *)
(* instead of being stored.                                                *)
(***************************************************************************)
\* the parserError calls made with the message
calls(message) ==
  { k \in 1..Len(parser.errors) : parser.errors[k].message = message }

C17_HelloWorldAccepted ==
  (source = HelloWorld /\ pstatus # "parsing") =>
    /\ pstatus = "returned"
    /\ ~parser.hadError
    /\ Len(program) = 1
    /\ program[1].type = "AST_FUNCTION_DECL"

\* parse() has returned for the Hello World program
C17_HelloWorldParsed ==
  /\ source = HelloWorld
  /\ pstatus = "returned"
  /\ Len(program) >= 1

(***************************************************************************)
(* Code generator (codegen.c).  The context c is the text written to the    *)
(* output file so far (output, a sequence of bytes), the indentation level *)
(* and the lines written to stderr.  Each generate function returns the    *)
(* context after it.  main calls generateCode only for a program parsed    *)
(* without error, in which the only absent children are the optional ones  *)
(* the generator tests for NULL.                                           *)
(***************************************************************************)

initCodeGen == [output |-> <<>>, indentLevel |-> 0, stderr |-> <<>>]

\* fprintf(context->output, ...) of the bytes
emit(c, bytes) == [c EXCEPT !.output = @ \o bytes]

\* fprintf(stderr, ...)
complain(c, message) == [c EXCEPT !.stderr = Append(@, message)]

getTypeString(type) ==
  CASE type = "TOKEN_INT" -> <<105,110,116>>
    [] type = "TOKEN_FLOAT" -> <<102,108,111,97,116>>
    [] type = "TOKEN_CHAR" -> <<99,104,97,114>>
    [] OTHER -> <<118,111,105,100>>

\* four spaces for each level
RECURSIVE spaces(_)
spaces(level) == IF level <= 0 THEN <<>> ELSE <<32,32,32,32>> \o spaces(level - 1)

emitIndentation(c) == emit(c, spaces(c.indentLevel))

\* "%s %.*s" of a type and a name token
typedName(src, type, name) ==
  getTypeString(type) \o <<32>> \o Slice(src, name.start, name.length)

operatorText(operator) ==
  CASE operator = "TOKEN_PLUS" -> <<32,43,32>>
    [] operator = "TOKEN_MINUS" -> <<32,45,32>>
    [] operator = "TOKEN_MULTIPLY" -> <<32,42,32>>
    [] operator = "TOKEN_DIVIDE" -> <<32,47,32>>
    [] operator = "TOKEN_MODULO" -> <<32,37,32>>
    [] operator = "TOKEN_EQUALS" -> <<32,61,61,32>>
    [] operator = "TOKEN_NOT_EQUALS" -> <<32,33,61,32>>
    [] operator = "TOKEN_LESS" -> <<32,60,32>>
    [] operator = "TOKEN_GREATER" -> <<32,62,32>>
    [] operator = "TOKEN_LESS_EQ" -> <<32,60,61,32>>
    [] operator = "TOKEN_GREATER_EQ" -> <<32,62,61,32>>
    [] operator = "TOKEN_AND" -> <<32,38,38,32>>
    [] operator = "TOKEN_OR" -> <<32,124,124,32>>
    [] OTHER -> <<>>

\* the names generateCall compares a callee with: the string literals
\* "लिखो" and "पढ़ो" of codegen.c, 12 bytes each
printIntrinsic == <<224,164,178,224,164,191,224,164,150,224,165,139>>

readIntrinsic == <<224,164,170,224,164,162,224,164,188,224,165,139>>

\* name.length == n && strncmp(name.start, literal, n) == 0: the token has
\* n bytes and they are the first n bytes of the literal (neither holds a
\* NUL byte)
lengthAndPrefix(src, name, literal, n) ==
  /\ name.length = n
  /\ \A i \in 0..(n - 1) : At(src, name.start + i) = literal[i + 1]

\* the function name generateCall writes for the callee
calleeText(src, name) ==
  IF lengthAndPrefix(src, name, printIntrinsic, 4) THEN <<112,114,105,110,116,102>>
  ELSE IF lengthAndPrefix(src, name, readIntrinsic, 3) THEN <<115,99,97,110,102>>
  ELSE Slice(src, name.start, name.length)

RECURSIVE generateDeclaration(_, _, _), generateStatement(_, _, _),
          generateBlockLoop(_, _, _, _), generateBlock(_, _, _),
          generateForStatement(_, _, _), generateExpression(_, _, _),
          generateArguments(_, _, _, _)

generateLiteral(src, c, node) ==
  CASE node.value.type = "TOKEN_NUMBER" ->
         emit(c, Slice(src, node.value.start, node.value.length))
    [] node.value.type = "TOKEN_STRING" ->
         emit(c, <<34>> \o Slice(src, node.value.start + 1,
                                 node.value.length - 2) \o <<34>>)
    [] OTHER -> complain(c, "Unknown literal type in code generation.")

generateVariable(src, c, node) ==
  emit(c, Slice(src, node.name.start, node.name.length))

generateAssignment(src, c, node) ==
  generateExpression(src,
    emit(c, Slice(src, node.name.start, node.name.length) \o <<32,61,32>>),
    node.value)

\* the switch on the operator in generateBinary
emitOperator(c, operator) ==
  IF operatorText(operator) = <<>>
  THEN complain(c, "Unknown binary operator in code generation.")
  ELSE emit(c, operatorText(operator))

generateBinary(src, c, node) ==
  emit(generateExpression(src,
         emitOperator(generateExpression(src, emit(c, <<40>>), node.left),
                      node.operator),
         node.right),
       <<41>>)

generateUnary(src, c, node) ==
  CASE node.operator = "TOKEN_MINUS" ->
         emit(generateExpression(src, emit(c, <<40,45>>), node.right), <<41>>)
    [] node.operator = "TOKEN_NOT" ->
         generateExpression(src, emit(c, <<33>>), node.right)
    [] OTHER ->
         generateExpression(src,
           complain(c, "Unknown unary operator in code generation."),
           node.right)

\* the argument loop of generateCall from argument i on
generateArguments(src, c, node, i) ==
  IF i > Len(node.arguments) THEN c
  ELSE generateArguments(src,
         generateExpression(src, IF i > 1 THEN emit(c, <<44,32>>) ELSE c,
                            node.arguments[i]),
         node, i + 1)

generateCall(src, c, node) ==
  emit(generateArguments(src,
         emit(c, calleeText(src, node.name) \o <<40>>), node, 1),
       <<41>>)

generateExpression(src, c, node) ==
  CASE node.type = "AST_BINARY" -> generateBinary(src, c, node)
    [] node.type = "AST_UNARY" -> generateUnary(src, c, node)
    [] node.type = "AST_LITERAL" -> generateLiteral(src, c, node)
    [] node.type = "AST_VARIABLE" -> generateVariable(src, c, node)
    [] node.type = "AST_ASSIGNMENT" -> generateAssignment(src, c, node)
    [] node.type = "AST_CALL" -> generateCall(src, c, node)
    [] OTHER -> complain(c, "Unknown expression type in code generation.")

\* "<type> <name>" and the initializer, if any, after " = "
declarator(src, c, node) ==
  IF node.initializer # NULL
  THEN generateExpression(src,
         emit(c, typedName(src, node.varType, node.name) \o <<32,61,32>>),
         node.initializer)
  ELSE emit(c, typedName(src, node.varType, node.name))

generateVarDecl(src, c, node) ==
  emit(declarator(src, emitIndentation(c), node), <<59,10>>)

\* the parameters of generateFunctionDecl from parameter i on
RECURSIVE parameterText(_, _, _)
parameterText(src, params, i) ==
  IF i > Len(params) THEN <<>>
  ELSE (IF i > 1 THEN <<44,32>> ELSE <<>>)
         \o typedName(src, params[i].type, params[i].name)
         \o parameterText(src, params, i + 1)

generateFunctionDecl(src, c, node) ==
  generateBlock(src,
    emit(c, typedName(src, node.returnType, node.name) \o <<40>>
              \o parameterText(src, node.params, 1) \o <<41,32>>),
    node.body)

\* the statement loop of generateBlock from statement i on
generateBlockLoop(src, c, node, i) ==
  IF i > Len(node.statements) THEN c
  ELSE generateBlockLoop(src,
         generateDeclaration(src, c, node.statements[i]), node, i + 1)

generateBlock(src, c, node) ==
  emit(emitIndentation(
         [generateBlockLoop(src,
            [emit(emitIndentation(c), <<123,10>>)
               EXCEPT !.indentLevel = @ + 1],
            node, 1)
            EXCEPT !.indentLevel = @ - 1]),
       <<125,10>>)

generateIfStatement(src, c, node) ==
  With(generateStatement(src,
         emit(generateExpression(src, emit(emitIndentation(c), <<105,102,32,40>>),
                                 node.condition),
              <<41,32>>),
         node.thenBranch),
       LAMBDA c1 :
         IF node.elseBranch # NULL
         THEN generateStatement(src, emit(emitIndentation(c1), <<101,108,115,101,32>>),
                                node.elseBranch)
         ELSE c1)

generateWhileStatement(src, c, node) ==
  generateStatement(src,
    emit(generateExpression(src, emit(emitIndentation(c), <<119,104,105,108,101,32,40>>),
                            node.condition),
         <<41,32>>),
    node.body)

\* the initializer clause of generateForStatement
forInitializerText(src, c, node) ==
  IF node.initializer # NULL
  THEN IF node.initializer.type = "AST_VAR_DECL"
       THEN declarator(src, c, node.initializer)
       ELSE generateExpression(src, c, node.initializer)
  ELSE c

\* the expression, if there is one
optionalExpression(src, c, node) ==
  IF node # NULL THEN generateExpression(src, c, node) ELSE c

generateForStatement(src, c, node) ==
  generateStatement(src,
    emit(optionalExpression(src,
           emit(optionalExpression(src,
                  emit(forInitializerText(src,
                         emit(emitIndentation(c), <<102,111,114,32,40>>), node),
                       <<59,32>>),
                  node.condition),
                <<59,32>>),
           node.increment),
         <<41,32>>),
    node.body)

generateReturnStatement(src, c, node) ==
  emit(IF node.value # NULL
       THEN generateExpression(src,
              emit(emit(emitIndentation(c), <<114,101,116,117,114,110>>), <<32>>), node.value)
       ELSE emit(emitIndentation(c), <<114,101,116,117,114,110>>),
       <<59,10>>)

generateExpressionStatement(src, c, node) ==
  emit(generateExpression(src, emitIndentation(c), node.expression), <<59,10>>)

generateStatement(src, c, node) ==
  CASE node.type = "AST_BLOCK" -> generateBlock(src, c, node)
    [] node.type = "AST_IF" -> generateIfStatement(src, c, node)
    [] node.type = "AST_WHILE" -> generateWhileStatement(src, c, node)
    [] node.type = "AST_FOR" -> generateForStatement(src, c, node)
    [] node.type = "AST_RETURN" -> generateReturnStatement(src, c, node)
    [] node.type = "AST_EXPRESSION_STMT" ->
         generateExpressionStatement(src, c, node)
    [] OTHER -> complain(c, "Unknown statement type in code generation.")

generateDeclaration(src, c, node) ==
  CASE node.type = "AST_VAR_DECL" -> generateVarDecl(src, c, node)
    [] node.type = "AST_FUNCTION_DECL" -> generateFunctionDecl(src, c, node)
    [] OTHER -> generateStatement(src, c, node)

\* the two #include lines generateCode begins with
includes == <<35,105,110,99,108,117,100,101,32,60,115,116,100,105,111,46,104,62,10,35,105,110,99,108,117,100,101,32,60,115,116,100,108,105,98,46,104,62,10,10>>

\* the loop of generateCode from declaration i on
RECURSIVE generateCodeLoop(_, _, _, _)
generateCodeLoop(src, c, declarations, i) ==
  IF i > Len(declarations) THEN c
  ELSE generateCodeLoop(src,
         emit(generateDeclaration(src, c, declarations[i]), <<10>>),
         declarations, i + 1)

generateCode(src, c, declarations) ==
  generateCodeLoop(src, emit(c, includes), declarations, 1)

(***************************************************************************)
(* Driver specification: main from initParser to its return, one stage     *)
(* per step: parse(), analyzeProgram, then fopen and generateCode.  The    *)
(* text generateCode writes is not described here, only that it was        *)
(* written; fopen succeeds or fails.  Sources are scanned by scanToken and, *)
(* for those with keywords, by the keyword table as well.                  *)
(***************************************************************************)

\* short sources with a keyword, for the scanner as it is
ShortKeywordSources ==
  { kw("TOKEN_INT") \o <<32,120,59>>,   \* पूर्णांक x;
    kw("TOKEN_RETURN") \o <<59>> }      \* वापस;

MainInputs ==
  { [src |-> s, keywordScan |-> FALSE, nullDeref |-> n, parseOnly |-> o] :
       s \in WellFormedAscii \cup MalformedAscii \cup OtherExprSources
             \cup ShortKeywordSources,
       n \in {"trap", "zero"}, o \in BOOLEAN }
  \cup { [src |-> s, keywordScan |-> TRUE, nullDeref |-> "trap",
          parseOnly |-> o] :
       s \in TypeSources \cup FunctionSources \cup SameDepthSources,
       o \in BOOLEAN }

MainInit ==
  \E inp \in MainInputs :
    /\ source = inp.src
    /\ keywordScan = inp.keywordScan
    /\ scanned = scanCalls(inp.src, inp.keywordScan)
    /\ nullDeref = inp.nullDeref
    /\ lexer = initLexer
    /\ tokens = <<>>
    /\ parser = initParser(inp.src, initLexer)
    /\ program = <<>>
    /\ pstatus = "parsing"
    /\ SemIdle
    /\ main = [pc |-> "parse", parseOnly |-> inp.parseOnly, exitCode |-> 0,
               outputOpened |-> FALSE, generated |-> FALSE, stages |-> <<>>]

\* main has returned code
exit(m, code) == [m EXCEPT !.pc = "exited", !.exitCode = code]

\* main after parse() has returned the parser state p
afterParse(m, p) ==
  IF p.hadError THEN exit(m, 1)
  ELSE IF m.parseOnly THEN exit(m, 0)
  ELSE [m EXCEPT !.pc = "analyse"]

\* main after analyzeProgram has returned semanticSuccess
afterAnalysisUnchecked(m, semanticSuccess) == [m EXCEPT !.pc = "emit"]

afterAnalysis(m, semanticSuccess) ==
  IF ~semanticSuccess THEN exit(m, 1) ELSE [m EXCEPT !.pc = "emit"]

\* main after fopen: NULL, or the file generateCode then writes
afterOpen(m, opened) ==
  IF ~opened THEN exit(m, 1)
  ELSE exit([m EXCEPT !.outputOpened = TRUE, !.generated = TRUE], 0)

\* m with the stage entered
entered(m, stage) == [m EXCEPT !.stages = Append(@, stage)]

\* the process, once parse() has ended in the parser state p
parseEnded(p) ==
  CASE p.status = "trap" -> "crashed"
    [] p.status = "hang" -> "hung"
    [] OTHER -> "returned"

MainParse ==
  /\ main.pc = "parse"
  /\ LET r == parse(source, parser) IN
       /\ parser' = r.p
       /\ program' = r.declarations
       /\ pstatus' = parseEnded(r.p)
       /\ main' = IF r.p.status = "ok"
                  THEN afterParse(entered(main, "parse"), r.p)
                  ELSE [entered(main, "parse") EXCEPT !.pc = parseEnded(r.p)]
  /\ UNCHANGED <<lexVars, keywordScan, scanned, nullDeref, sem, analysis>>

MainAnalyze ==
  /\ main.pc = "analyse"
  /\ LET r == analyzeProgram(source, initSemanticAnalyzer, program) IN
       /\ sem' = r.a
       /\ analysis' = [analysis EXCEPT !.input = "parsed", !.pass = 2,
                                       !.returned = TRUE, !.success = r.ok]
       /\ main' = afterAnalysis(entered(main, "analyse"), r.ok)
  /\ UNCHANGED <<lexVars, parseVars>>

MainEmit ==
  /\ main.pc = "emit"
  /\ \E opened \in BOOLEAN :
       main' = afterOpen(entered(main, "emit"), opened)
  /\ UNCHANGED <<lexVars, parseVars, sem, analysis>>

MainNext == MainParse \/ MainAnalyze \/ MainEmit

SpecMain == MainInit /\ [][MainNext]_vars

\* s is an initial part of t
IsPrefix(s, t) == Len(s) <= Len(t) /\ s = SubSeq(t, 1, Len(s))

(***************************************************************************)
(* C6.  The stages run in the order parse, analyse, emit, each to          *)
(* completion: the output file is opened and generateCode called only      *)
(* after parse has finished with hadError false and analyzeProgram has     *)
(* returned true; if either stage reported failure, main returns 1 and no  *)
(* output is written.                                                      *)
(***************************************************************************)
C6_StagesInOrder ==
  /\ IsPrefix(main.stages, <<"parse", "analyse", "emit">>)
  /\ (main.outputOpened \/ main.generated) =>
       /\ pstatus = "returned" /\ ~parser.hadError
       /\ analysis.returned /\ analysis.success
  /\ (/\ main.pc = "exited"
      /\ parser.hadError \/ (analysis.returned /\ ~analysis.success)) =>
       /\ main.exitCode = 1
       /\ ~main.outputOpened /\ ~main.generated

\* all three stages have run and the output was written
C6_OutputWritten ==
  /\ main.pc = "exited" /\ main.exitCode = 0
  /\ main.stages = <<"parse", "analyse", "emit">>
  /\ main.generated
  /\ Len(program) >= 1

(***************************************************************************)
(* Code generator specification: generateCode applied to a program.  The   *)
(* program is either the result of parse() on a source with keywords       *)
(* (scanned by the keyword table), or one call statement whose callee is   *)
(* a given name: generateCall is a function of the call node and the       *)
(* bytes of its callee's slice, whichever scanner produced the token.      *)
(***************************************************************************)

\* for statements: every combination of present and absent clauses, the
\* initializer an expression statement or a variable declaration
ForInitializers ==
  { <<59>>,   \* ;
    <<105,32,61,32,48,59>>,   \* i = 0;
    <<102,40,41,59>>,   \* f();
    kw("TOKEN_INT") \o <<32,105,32,61,32,48,59>>,   \* पूर्णांक i = 0;
    kw("TOKEN_FLOAT") \o <<32,120,59>> }   \* दशमलव x;

ForConditions == { <<>>, <<105,32,60,32,110>> }   \* i < n

ForIncrements == { <<>>, <<105,32,61,32,105,32,43,32,49>> }   \* i = i + 1

\* दौर (<initializer> <condition>; <increment>) g();
ForSources ==
  { kw("TOKEN_FOR") \o <<32,40>> \o i \o <<32>> \o c \o <<59,32>> \o n
      \o <<41,32,103,40,41,59>> :
      i \in ForInitializers, c \in ForConditions, n \in ForIncrements }

\* if (-a) { x = !b; } else return "s";   in the source language
MixedStatementSource ==
  kw("TOKEN_IF") \o <<32,40,45,97,41,32,123,32,120,32,61,32,33,98,59,32,125,32>> \o kw("TOKEN_ELSE") \o <<32>>
    \o kw("TOKEN_RETURN") \o <<32,34,115,34,59>>

GenSources ==
  ForSources \cup WellFormedKeyword \cup WellFormedAscii
    \cup {MixedStatementSource}

\* callee names: the two intrinsics, their leading 4 and 3 bytes, names
\* that begin with an intrinsic's characters or continue it, other names
CalleeNames ==
  { printIntrinsic,
    readIntrinsic,
    SubSeq(printIntrinsic, 1, 4),
    SubSeq(readIntrinsic, 1, 3),   \* प
    SubSeq(printIntrinsic, 1, 9),   \* लिख
    SubSeq(printIntrinsic, 1, 3),   \* ल
    printIntrinsic \o <<50>>,   \* लिखो2
    SubSeq(readIntrinsic, 1, 3) \o <<120>>,   \* पx
    <<102>>,
    <<109,97,105,110>>,
    <<112,114,105,110,116,102>>,
    <<97,98,99>> }

\* argument lists: each argument a token type and its text
ArgumentLists ==
  { <<>>,
    << [type |-> "TOKEN_STRING", text |-> <<34,115,34>>] >>,   \* "s"
    << [type |-> "TOKEN_IDENTIFIER", text |-> <<120>>],
       [type |-> "TOKEN_NUMBER", text |-> <<49>>] >>,   \* x, 1
    << [type |-> "TOKEN_NUMBER", text |-> <<50,46,53>>],
       [type |-> "TOKEN_IDENTIFIER", text |-> <<121>>],
       [type |-> "TOKEN_STRING", text |-> <<34,37,100,34>>] >> }   \* 2.5, y, "%d"

\* the text of the arguments from argument i on, separated by ", "
RECURSIVE argumentText(_, _)
argumentText(args, i) ==
  IF i > Len(args) THEN <<>>
  ELSE (IF i > 1 THEN <<44,32>> ELSE <<>>) \o args[i].text
         \o argumentText(args, i + 1)

\* the statement <name>(<arguments>);
callSource(name, args) == name \o <<40>> \o argumentText(args, 1) \o <<41,59>>

\* the token with the given text at offset start of the first line
tokenAt(type, start, text) ==
  [type |-> type, start |-> start, length |-> Len(text), line |-> 1,
   column |-> start + 1, message |-> ""]

\* the nodes of the arguments from argument i on, the first at offset start
RECURSIVE argumentNodes(_, _, _)
argumentNodes(args, i, start) ==
  IF i > Len(args) THEN <<>>
  ELSE <<IF args[i].type = "TOKEN_IDENTIFIER"
         THEN createVariable(tokenAt(args[i].type, start, args[i].text))
         ELSE createLiteral(tokenAt(args[i].type, start, args[i].text))>>
         \o argumentNodes(args, i + 1, start + Len(args[i].text) + 2)

\* the program parse() builds for callSource(name, args) from these tokens
callProgram(name, args) ==
  << createExpressionStmt(
       createCall(tokenAt("TOKEN_IDENTIFIER", 0, name),
                  argumentNodes(args, 1, Len(name) + 1))) >>

\* the tree of HelloWorld with each Devanagari word one token: the function
\* मुख्य, its call of लिखो with the string literal, and वापस 0;
helloProgram ==
  << createFunctionDecl(
       [type |-> "TOKEN_IDENTIFIER", start |-> 16, length |-> 15, line |-> 1,
            column |-> 17, message |-> ""],
       "TOKEN_VOID", <<>>,
       createBlock(<<
         createExpressionStmt(createCall(
           [type |-> "TOKEN_IDENTIFIER", start |-> 40, length |-> 12, line |-> 2,
            column |-> 5, message |-> ""],
           << createLiteral(
                [type |-> "TOKEN_STRING", start |-> 53, length |-> 40, line |-> 2,
            column |-> 18, message |-> ""]) >>)),
         createReturn(createLiteral(
           [type |-> "TOKEN_NUMBER", start |-> 113, length |-> 1, line |-> 3,
            column |-> 18, message |-> ""])) >>)) >>

GenIdle == main = [pc |-> "generate", context |-> initCodeGen]

GenInit ==
  \/ \E s \in GenSources :
       /\ source = s
       /\ keywordScan = TRUE
       /\ scanned = scanCalls(s, TRUE)
       /\ nullDeref = "trap"
       /\ lexer = initLexer
       /\ tokens = <<>>
       /\ parser = initParser(s, initLexer)
       /\ program = <<>>
       /\ pstatus = "parsing"
       /\ SemIdle
       /\ GenIdle
  \/ \E name \in CalleeNames, args \in ArgumentLists :
       /\ source = callSource(name, args)
       /\ lexer = initLexer
       /\ tokens = <<>>
       /\ keywordScan = FALSE
       /\ scanned = <<>>
       /\ nullDeref = "trap"
       /\ parser = [lexer |-> initLexer, current |-> noToken,
                    previous |-> noToken, hadError |-> FALSE,
                    panicMode |-> FALSE, diagnostics |-> <<>>,
                    errors |-> <<>>, status |-> "ok",
                    beyond |-> 0, farthest |-> -1]
       /\ program = callProgram(name, args)
       /\ pstatus = "returned"
       /\ SemIdle
       /\ GenIdle
  \/ /\ source = HelloWorld
     /\ lexer = initLexer
     /\ tokens = <<>>
     /\ keywordScan = FALSE
     /\ scanned = <<>>
     /\ nullDeref = "trap"
     /\ parser = [lexer |-> initLexer, current |-> noToken,
                  previous |-> noToken, hadError |-> FALSE,
                  panicMode |-> FALSE, diagnostics |-> <<>>,
                  errors |-> <<>>, status |-> "ok",
                  beyond |-> 0, farthest |-> -1]
     /\ program = helloProgram
     /\ pstatus = "returned"
     /\ SemIdle
     /\ GenIdle

\* main's call of generateCode, made once parse() has returned without error
GenerateCode ==
  /\ main.pc = "generate"
  /\ pstatus = "returned"
  /\ ~parser.hadError
  /\ main' = [pc |-> "generated",
              context |-> generateCode(source, initCodeGen, program)]
  /\ UNCHANGED <<lexVars, parseVars, sem, analysis>>

GenNext == ParseDeclaration \/ ParseReturn \/ GenerateCode

SpecGen == GenInit /\ [][GenNext]_vars

\* the program is the single statement <callee>(...);
isCallStatement(declarations) ==
  /\ Len(declarations) = 1
  /\ declarations[1].type = "AST_EXPRESSION_STMT"
  /\ declarations[1].expression.type = "AST_CALL"

\* the bytes of the callee's slice
calleeName(src, declarations) ==
  Slice(src, declarations[1].expression.name.start,
        declarations[1].expression.name.length)

clauseText(src, node) ==
  IF node = NULL THEN <<>>
  ELSE IF node.type = "AST_VAR_DECL"
  THEN declarator(src, initCodeGen, node).output
  ELSE IF node.type = "AST_EXPRESSION_STMT"
  THEN generateExpression(src, initCodeGen, node.expression).output
  ELSE generateExpression(src, initCodeGen, node).output

\* for (<init>; <cond>; <incr>) and the space before the body
forHeader(src, node) ==
  <<102,111,114,32,40>> \o clauseText(src, node.initializer) \o <<59,32>>
    \o clauseText(src, node.condition) \o <<59,32>>
    \o clauseText(src, node.increment) \o <<41,32>>

RoundOperands ==
  { <<97>>, <<49>>, <<40,98,32,61,32,99,41>>, <<45,100>>, <<33,101>>,
    <<102,40,103,44,32,50,41>>, <<40,104,32,42,32,51,41>> }

\* operators: + * < == &&
RoundOperators == { <<43>>, <<42>>, <<60>>, <<61,61>>, <<38,38>> }

\* x op y;   -x;   !x;   -(x);   !(x);   a = x;   f(x);
RoundSources ==
  { x \o <<32>> \o op \o <<32>> \o y \o <<59>> :
      x \in RoundOperands, op \in RoundOperators, y \in RoundOperands }
  \cup { <<45>> \o x \o <<59>> : x \in RoundOperands }
  \cup { <<33>> \o x \o <<59>> : x \in RoundOperands }
  \cup { <<45,40>> \o x \o <<41,59>> : x \in RoundOperands }
  \cup { <<33,40>> \o x \o <<41,59>> : x \in RoundOperands }
  \cup { <<97,32,61,32>> \o x \o <<59>> : x \in RoundOperands }
  \cup { <<102,40>> \o x \o <<41,59>> : x \in RoundOperands }

\* an expression tree without the positions of its tokens: node types,
\* operators and the text of names and literals
RECURSIVE shape(_, _)
shape(src, node) ==
  CASE node = NULL -> <<"NULL">>
    [] node.type = "AST_BINARY" ->
         <<"AST_BINARY", node.operator, shape(src, node.left),
           shape(src, node.right)>>
    [] node.type = "AST_UNARY" ->
         <<"AST_UNARY", node.operator, shape(src, node.right)>>
    [] node.type = "AST_LITERAL" ->
         <<"AST_LITERAL", node.value.type,
           Slice(src, node.value.start, node.value.length)>>
    [] node.type = "AST_VARIABLE" ->
         <<"AST_VARIABLE", Slice(src, node.name.start, node.name.length)>>
    [] node.type = "AST_ASSIGNMENT" ->
         <<"AST_ASSIGNMENT", Slice(src, node.name.start, node.name.length),
           shape(src, node.value)>>
    [] node.type = "AST_CALL" ->
         <<"AST_CALL", Slice(src, node.name.start, node.name.length),
           [i \in 1..Len(node.arguments) |-> shape(src, node.arguments[i])]>>
    [] OTHER -> <<node.type>>

RoundInit ==
  \E s \in RoundSources :
    /\ source = s
    /\ keywordScan = FALSE
    /\ scanned = scanCalls(s, FALSE)
    /\ nullDeref = "trap"
    /\ lexer = initLexer
    /\ tokens = <<>>
    /\ parser = initParser(s, initLexer)
    /\ program = <<>>
    /\ pstatus = "parsing"
    /\ SemIdle
    /\ main = [pc |-> "parse"]

\* the statement has been parsed without error: the emitted text becomes
\* the source; main keeps the first source and the shape of its tree
Emit ==
  /\ main.pc = "parse"
  /\ pstatus = "returned"
  /\ ~parser.hadError
  /\ Len(program) = 1
  /\ program[1].type = "AST_EXPRESSION_STMT"
  /\ source' = generateExpressionStatement(source, initCodeGen,
                                           program[1]).output
  /\ scanned' = scanCalls(source', FALSE)
  /\ main' = [pc |-> "emitted", first |-> source,
              original |-> shape(source, program[1].expression)]
  /\ UNCHANGED <<lexer, tokens, keywordScan, nullDeref, parser, program,
                 pstatus, sem, analysis>>

\* initParser on the emitted text
ReparseBegin ==
  /\ main.pc = "emitted"
  /\ parser' = initParser(source, initLexer)
  /\ pstatus' = "parsing"
  /\ main' = [main EXCEPT !.pc = "reparse"]
  /\ UNCHANGED <<lexVars, keywordScan, scanned, nullDeref, program, sem,
                 analysis>>

RoundNext == ParseDeclaration \/ ParseReturn \/ Emit \/ ReparseBegin

SpecRound == RoundInit /\ [][RoundNext]_vars

\* the parse of the emitted text has ended
reparsed == main.pc = "reparse" /\ pstatus # "parsing"

(***************************************************************************)
(* C30.  Emission preserves expression structure: for every expression     *)
(* tree the parser can produce, parsing the emitted text again with the    *)
(* same expression grammar yields the same tree, also when an Assignment   *)
(* is an operand of a Binary or Unary expression (`a + (b = c)`,           *)
(* `-(a = b)`).                                                            *)
(***************************************************************************)
C30_EmissionPreservesStructure ==
  reparsed =>
    /\ pstatus = "returned"
    /\ ~parser.hadError
    /\ Len(program) = 2
    /\ program[2].type = "AST_EXPRESSION_STMT"
    /\ shape(source, program[2].expression) = main.original

\* the text emitted for a + (b = c) has been parsed
C30_AssignmentOperandReparsed ==
  /\ reparsed
  /\ main.first = <<97,32,43,32,40,98,32,61,32,99,41,59>>
  /\ main.original =
       <<"AST_BINARY", "TOKEN_PLUS", <<"AST_VARIABLE", <<97>>>>,
         <<"AST_ASSIGNMENT", <<98>>, <<"AST_VARIABLE", <<99>>>>>>>>

====
